---- MODULE Spec2Model ----
(***************************************************************************)
(* Verification model of the ARM64 kernels of nautilus_assembly and of the  *)
(* Cython wrappers that call them:                                          *)
(*   - the L2 price-level book (order_book.s): _nautilus_update_l2_level    *)
(*     and _nautilus_get_best_bid_ask;                                      *)
(*   - the EMA and RSI kernels (signals.s, nautilus_hot_paths.s,            *)
(*     optimized_core.s);                                                   *)
(*   - order validation and portfolio VaR (risk_engine.s) and the packed    *)
(*     validators (ultra_fast_risk.s, order_book.s);                        *)
(*   - tick batches (market_data.s), the price / quantity conversions       *)
(*     (nautilus_hot_paths.s) and the indexed book                          *)
(*     (ultra_fast_order_book.s).                                           *)
(*                                                                          *)
(* Prices and quantities of the book are the raw 64-bit integers the        *)
(* kernels compare and store (price_raw = price * 1e8); the model draws     *)
(* them from small non-negative ranges, where the signed 64-bit comparisons *)
(* of the code agree with the integer order.                                *)
(***************************************************************************)
EXTENDS Integers, Sequences, FiniteSets, TLC

\* ------------------------------------------------------------------ bounds
\* bid_capacity / ask_capacity, set by whoever builds the book structure.
Capacity == 2
\* Level slots of memory modelled behind each array's last slot: the stores of
\* insert_shift_loop / insert_new land there once a side is full.
MaxOverrun == 1
\* Raw prices are drawn from 0..MaxPrice, raw quantities from 0..MaxQty.
MaxPrice == 2
MaxQty == 2
\* Runs stop calling _nautilus_update_l2_level once sequence reaches MaxSeq.
MaxSeq == 3

ArenaLen == Capacity + MaxOverrun
Slots == 0..(ArenaLen - 1)
Prices == 0..MaxPrice
Quantities == 0..MaxQty

\* x1 = side (0 = bid, anything else = ask); x4 = action (1 = delete).
Bid == 0
Ask == 1
Upsert == 0
Remove == 1
Sides == {Bid, Ask}
Actions == {Upsert, Remove}

VARIABLES
    bids_array,     \* memory at the bids pointer: slot -> [price, quantity]
    asks_array,     \* memory at the asks pointer
    bid_count,      \* book field bid_count
    ask_count,      \* book field ask_count
    bid_capacity,   \* book field bid_capacity (never read by the kernels)
    ask_capacity,   \* book field ask_capacity
    sequence,       \* book field sequence
    last,           \* the last call: its arguments and what it returned
    changed_calls,  \* history: number of calls that returned book_changed
    w_pc,           \* writer thread: label of _nautilus_update_l2_level it is at
    w_reg,          \* writer thread: its registers
    r_pc,           \* reader thread: label of _nautilus_get_best_bid_ask it is at
    r_reg,          \* reader thread: its registers
    tops,           \* history: top of book of every complete book state that
                    \* existed while the reader's current call ran
    ema_prices,     \* the float array passed to the EMA kernels
    ema_alpha,      \* the alpha passed to them
    ema_called,     \* which of the three entry points have been called on it
    ema_output,     \* output array of nautilus_calculate_ema_vectorized
    batch_result,   \* array returned by AssemblyEngine.ema_batch
    fast_result,    \* value returned by fast_ema_calculation
    rsi_prices,     \* the float array passed to calculate_rsi
    rsi_period,     \* the period passed to it
    rsi_result,     \* how the call ended ("idle" before it)
    rsi_output,     \* the output array (np.zeros(count) before the kernel runs)
    rsi_stores,     \* history: the kernel's stores in order, each with its
                    \* output index x20 and the averages s20, s21 behind it
    rsi_loads,      \* history: price indices loaded by the kernel, in order
    risk_call,      \* the validation call made: entry point and arguments
    risk_buffers,   \* the three buffers the kernel was handed
    risk_run,       \* history: the kernel's loads and checks per order, its mask
    risk_result,    \* how the call ended and the list it returned
    pvar_call,      \* arguments of the portfolio VaR call
    pvar_result,    \* how it ended, the x0 it returned, and (history) the
                    \* float indices it loaded from positions and volatilities
    risk_heap,      \* history: malloc results and free calls of
                    \* validate_order_batch, and whether the kernel was called
    tick_call,      \* the tick-processing call made: entry point and arguments
    tick_buffers,   \* the input buffer the kernel read (8-byte cells)
    tick_output,    \* the 8-byte cells the kernel stored at output_events
    tick_result,    \* how the call ended and the list it returned
    tick_heap,      \* history: malloc results and free calls of process_ticks
    conv_call,      \* the conversion call made: entry point and value
    conv_result,    \* how it ended and the float it returned
    urisk_call,     \* the packed-order validation call made, with its arguments
    urisk_result,   \* how it ended, x0 or the results array it stored
    ubook_call,     \* the indexed-book update call made, with its arguments
    ubook_memory,   \* the book block: its 32-bit words, and how far the run is
    emak_call,      \* arguments of a nautilus_calculate_ema_vectorized call
    emak_result     \* how it ended and (history) its loop iterations, the
                    \* price indices it loaded and the output indices it stored

book_vars == <<bids_array, asks_array, bid_count, ask_count, bid_capacity,
               ask_capacity, sequence, last, changed_calls>>
thread_vars == <<w_pc, w_reg, r_pc, r_reg, tops>>
ema_vars == <<ema_prices, ema_alpha, ema_called, ema_output, batch_result,
              fast_result>>
rsi_vars == <<rsi_prices, rsi_period, rsi_result, rsi_output, rsi_stores,
              rsi_loads>>
\* the variables of the kernels that came after the book and the EMA
risk_vars == <<risk_call, risk_buffers, risk_run, risk_result>>
pvar_vars == <<pvar_call, pvar_result>>
tick_vars == <<tick_call, tick_buffers, tick_output, tick_result, tick_heap>>
\* the variables of the wrappers' heap use and of the remaining kernels
conv_vars == <<conv_call, conv_result>>
urisk_vars == <<urisk_call, urisk_result>>
ubook_vars == <<ubook_call, ubook_memory>>
emak_vars == <<emak_call, emak_result>>
late_vars == <<conv_vars, urisk_vars, ubook_vars, emak_vars>>
ext_vars == <<risk_heap, tick_vars, late_vars>>
other_vars == <<rsi_vars, risk_vars, pvar_vars, ext_vars>>
vars == <<book_vars, thread_vars, ema_vars, other_vars>>

book == <<bids_array, asks_array, bid_count, ask_count, sequence>>

\* ------------------------------------------------------- order_book.s data
Level(p, q) == [price |-> p, quantity |-> q]
EmptyArena == [i \in Slots |-> Level(0, 0)]

\* update_flags: bit 0 = book_changed, bit 1 = top_changed.
book_changed(flags) == flags % 2 = 1
top_changed(flags) == (flags \div 2) % 2 = 1

\* ------------------------------------------------- _nautilus_update_l2_level
\* binary_search .. search_left_bid: the half-open interval [left, right).
RECURSIVE binary_search_wrong_side(_, _, _, _, _)
binary_search_wrong_side(levels, side, price, left, right) ==
    IF left >= right THEN [found |-> FALSE, index |-> left]
    ELSE LET mid == (left + right) \div 2
             level_price == levels[mid].price
         IN  IF price = level_price THEN [found |-> TRUE, index |-> mid]
             ELSE IF price < level_price
                  THEN binary_search_wrong_side(levels, side, price, left, mid)
                  ELSE binary_search_wrong_side(levels, side, price, mid + 1, right)

RECURSIVE binary_search(_, _, _, _, _)
binary_search(levels, side, price, left, right) ==
    IF left >= right THEN [found |-> FALSE, index |-> left]
    ELSE LET mid == (left + right) \div 2
             level_price == levels[mid].price
         IN  IF price = level_price THEN [found |-> TRUE, index |-> mid]
             ELSE IF side = Bid
                  THEN IF price > level_price
                       THEN binary_search(levels, side, price, left, mid)
                       ELSE binary_search(levels, side, price, mid + 1, right)
                  ELSE IF price < level_price
                       THEN binary_search(levels, side, price, left, mid)
                       ELSE binary_search(levels, side, price, mid + 1, right)

\* found_exact / top_of_book_update: the flags of a hit at index mid.
found_exact_top_bit_only(mid) == IF mid = 0 THEN 2 ELSE 1

found_exact(mid) == IF mid = 0 THEN 3 ELSE 1

\* A store at offset 0 of the level instead of offset 8.
update_existing_level_price_field(levels, index, qty) ==
    [levels EXCEPT ![index].price = qty]

\* update_existing_level, action /= 1: str x3, [levels + 16*index + 8].
update_existing_level(levels, index, qty) ==
    [levels EXCEPT ![index].quantity = qty]

\* delete_level / shift_loop: levels[i-1] := levels[i] for i = index+1..count-1,
\* in ascending order; slot count-1 keeps its old contents.
delete_level(levels, index, count) ==
    [j \in Slots |-> IF index <= j /\ j < count - 1 THEN levels[j + 1]
                     ELSE levels[j]]

\* insert_shift_loop: levels[i] := levels[i-1] for i = count down to pos+1;
\* insert_new: levels[pos] := (price, qty).
insert_new(levels, pos, count, price, qty) ==
    [j \in Slots |-> IF j = pos THEN Level(price, qty)
                     ELSE IF pos < j /\ j <= count THEN levels[j - 1]
                     ELSE levels[j]]

\* insert_new / inserted_at_top: the flags of an insertion at position pos.
inserted_flags_never_top(pos) == 1

inserted_flags(pos) == IF pos = 0 THEN 3 ELSE 1

\* update_sequence: ldr / add #1 / str on the sequence field.
update_sequence(seq) == seq + 1

\* The whole routine on one side's (levels, count): the new levels and count,
\* the returned flags, and whether update_counts / update_sequence ran.
nautilus_update_l2_level(levels, count, side, price, qty, action) ==
    LET s == binary_search(levels, side, price, 0, count)
    IN  IF s.found
        THEN IF action = 1
             THEN [levels |-> delete_level(levels, s.index, count),
                   count |-> count - 1,
                   flags |-> found_exact(s.index),
                   stored |-> TRUE]
             ELSE [levels |-> update_existing_level(levels, s.index, qty),
                   count |-> count,
                   flags |-> found_exact(s.index),
                   stored |-> TRUE]
        ELSE IF qty = 0
             THEN [levels |-> levels, count |-> count, flags |-> 0,
                   stored |-> FALSE]
             ELSE [levels |-> insert_new(levels, s.index, count, price, qty),
                   count |-> count + 1,
                   flags |-> inserted_flags(s.index),
                   stored |-> TRUE]

\* The highest slot the call stores to (-1: none): the model has memory for
\* slots 0..ArenaLen-1 only.
HighestStore(levels, count, side, price, qty) ==
    LET s == binary_search(levels, side, price, 0, count)
    IN  IF ~s.found /\ qty /= 0 THEN count ELSE -1

\* _nautilus_get_best_bid_ask: x0 = best bid price, x1 = best ask price,
\* 0 for a side whose count is 0.
no_bids == 0
no_asks == 0

nautilus_get_best_bid_ask(bids, bcount, asks, acount) ==
    [best_bid |-> IF bcount = 0 THEN no_bids ELSE bids[0].price,
     best_ask |-> IF acount = 0 THEN no_asks ELSE asks[0].price]

\* ------------------------------------------------------------------ actions
\* The writer's registers: x1..x4 (side, price, qty, action), x10 (working
\* count), x11/x12 (left/right), x13 (loop index), x16/x17 (the level an ldp
\* loaded), x19 (found_index), x20 (update_flags); and, as history, the top of
\* book before the call and what the call makes of the side it works on.
WriterIdle == [side |-> 0, price |-> 0, qty |-> 0, action |-> 0,
               x10 |-> 0, x11 |-> 0, x12 |-> 0, x13 |-> 0, x16 |-> 0, x17 |-> 0,
               x19 |-> 0, x20 |-> 0, top_before |-> <<0, 0>>,
               top_after |-> <<0, 0>>]
ReaderIdle == [w3 |-> 0, w4 |-> 0, x5 |-> 0, x6 |-> 0]

NoCall == [op |-> "none", side |-> 0, price |-> 0, quantity |-> 0,
           action |-> 0, flags |-> 0, best_bid |-> 0, best_ask |-> 0]

NoEma ==
    /\ ema_prices = << >>
    /\ ema_alpha = <<1, 1>>
    /\ ema_called = {}
    /\ ema_output = << >>
    /\ batch_result = << >>
    /\ fast_result = <<0, 1>>

NoRsi ==
    /\ rsi_prices = << >>
    /\ rsi_period = 1
    /\ rsi_result = "idle"
    /\ rsi_output = << >>
    /\ rsi_stores = << >>
    /\ rsi_loads = << >>

NoCallYet == [entry |-> "none", orders |-> << >>, positions |-> << >>,
              limits |-> << >>]
NoBuffers == [orders |-> << >>, positions |-> << >>, limits |-> << >>]
NoRun == [checked |-> << >>, mask |-> {}]
NoResult == [status |-> "idle", result |-> << >>]

NoRisk ==
    /\ risk_call = NoCallYet
    /\ risk_buffers = NoBuffers
    /\ risk_run = NoRun
    /\ risk_result = NoResult

NoVar == [status |-> "idle", x0 |-> [scaled_sqrt |-> <<0, 1>>], loads |-> {}]

NoPortfolio ==
    /\ pvar_call = [positions |-> << >>, correlations |-> << >>,
                    volatilities |-> << >>, count |-> 0]
    /\ pvar_result = NoVar

\* No malloc or free yet, kernel not called.
NoHeap == [allocated |-> {}, failed |-> {}, frees |-> << >>, kernel |-> FALSE]

NoTickCall == [entry |-> "none", ticks |-> << >>, instrument_id |-> 0]

NoTicks ==
    /\ tick_call = NoTickCall
    /\ tick_buffers = << >>
    /\ tick_output = << >>
    /\ tick_result = NoResult
    /\ tick_heap = NoHeap

NoEntry == [entry |-> "none"]
Idle == [status |-> "idle"]

NoConvert == conv_call = NoEntry /\ conv_result = Idle
NoUltraRisk == urisk_call = NoEntry /\ urisk_result = Idle
NoUltraBook == ubook_call = NoEntry /\ ubook_memory = Idle
NoEmaKernel == emak_call = NoEntry /\ emak_result = Idle

NoLate == NoConvert /\ NoUltraRisk /\ NoUltraBook /\ NoEmaKernel

NoExt == risk_heap = NoHeap /\ NoTicks /\ NoLate

NoOther == NoRsi /\ NoRisk /\ NoPortfolio /\ NoExt

EmptyBook ==
    /\ bids_array = EmptyArena
    /\ asks_array = EmptyArena
    /\ bid_count = 0
    /\ ask_count = 0
    /\ bid_capacity = Capacity
    /\ ask_capacity = Capacity
    /\ sequence = 0
    /\ last = NoCall
    /\ changed_calls = 0
    /\ w_pc = "idle"
    /\ w_reg = WriterIdle
    /\ r_pc = "idle"
    /\ r_reg = ReaderIdle
    /\ tops = {}

Init == EmptyBook /\ NoEma /\ NoOther

\* One call of _nautilus_update_l2_level(book, side, price, qty, action).
UpdateL2Level ==
    \E side \in Sides, price \in Prices, qty \in Quantities, action \in Actions :
        LET levels == IF side = Bid THEN bids_array ELSE asks_array
            count == IF side = Bid THEN bid_count ELSE ask_count
            r == nautilus_update_l2_level(levels, count, side, price, qty, action)
        IN  /\ sequence < MaxSeq
            /\ HighestStore(levels, count, side, price, qty) < ArenaLen
            /\ IF side = Bid
               THEN /\ bids_array' = r.levels
                    /\ bid_count' = r.count
                    /\ UNCHANGED <<asks_array, ask_count>>
               ELSE /\ asks_array' = r.levels
                    /\ ask_count' = r.count
                    /\ UNCHANGED <<bids_array, bid_count>>
            /\ sequence' = IF r.stored THEN update_sequence(sequence) ELSE sequence
            /\ changed_calls' = IF book_changed(r.flags) THEN changed_calls + 1
                                ELSE changed_calls
            /\ last' = [op |-> "update", side |-> side, price |-> price,
                        quantity |-> qty, action |-> action, flags |-> r.flags,
                        best_bid |-> 0, best_ask |-> 0]
            /\ UNCHANGED <<ema_vars, other_vars, bid_capacity, ask_capacity, thread_vars>>

\* One call of _nautilus_get_best_bid_ask(book).
GetBestBidAsk ==
    LET r == nautilus_get_best_bid_ask(bids_array, bid_count, asks_array, ask_count)
    IN  /\ last' = [op |-> "best", side |-> 0, price |-> 0, quantity |-> 0,
                    action |-> 0, flags |-> 0,
                    best_bid |-> r.best_bid, best_ask |-> r.best_ask]
        /\ UNCHANGED <<ema_vars, other_vars, bids_array, asks_array, bid_count, ask_count,
                       bid_capacity, ask_capacity, sequence, changed_calls,
                       thread_vars>>

Next == UpdateL2Level \/ GetBestBidAsk

Spec == Init /\ [][Next]_vars

\* ------------------------------------------- one writer, one reader, stepwise
\* The same two routines, one load or store of shared memory per step (the
\* register-only instructions up to the next access belong to the step). An
\* ldp / stp of one 16-byte level is one step; the writer alone writes the
\* counts and the sequence field.
Top(bids, bcount, asks, acount) ==
    LET r == nautilus_get_best_bid_ask(bids, bcount, asks, acount)
    IN  <<r.best_bid, r.best_ask>>

WLevels == IF w_reg.side = Bid THEN bids_array ELSE asks_array

WStore(levels) ==
    IF w_reg.side = Bid
    THEN bids_array' = levels /\ UNCHANGED asks_array
    ELSE asks_array' = levels /\ UNCHANGED bids_array

ReaderRunning == r_pc \notin {"idle", "return_prices"}

\* lines 31-51: entry, load of the counts, left = 0, right = count.
W_Call ==
    \E side \in Sides, price \in Prices, qty \in Quantities, action \in Actions :
        LET levels == IF side = Bid THEN bids_array ELSE asks_array
            count == IF side = Bid THEN bid_count ELSE ask_count
            r == nautilus_update_l2_level(levels, count, side, price, qty, action)
            after == IF side = Bid
                     THEN Top(r.levels, r.count, asks_array, ask_count)
                     ELSE Top(bids_array, bid_count, r.levels, r.count)
        IN  /\ w_pc = "idle"
            /\ sequence < MaxSeq
            /\ HighestStore(levels, count, side, price, qty) < ArenaLen
            /\ w_pc' = "binary_search"
            /\ w_reg' = [WriterIdle EXCEPT
                            !.side = side, !.price = price, !.qty = qty,
                            !.action = action, !.x10 = count, !.x12 = count,
                            !.top_before = Top(bids_array, bid_count,
                                               asks_array, ask_count),
                            !.top_after = after]
            /\ tops' = IF ReaderRunning THEN tops \cup {after} ELSE tops
            /\ UNCHANGED <<ema_vars, other_vars, book_vars, r_pc, r_reg>>

\* binary_search .. update_existing_level / not_found: one probe of levels[mid].
W_BinarySearch ==
    /\ w_pc = "binary_search"
    /\ IF w_reg.x11 >= w_reg.x12
       THEN IF w_reg.qty = 0
            THEN w_pc' = "skip_insert" /\ UNCHANGED w_reg
            ELSE /\ w_pc' = "insert_shift_loop"
                 /\ w_reg' = [w_reg EXCEPT !.x13 = w_reg.x10]
       ELSE LET mid == (w_reg.x11 + w_reg.x12) \div 2
                level_price == WLevels[mid].price
            IN  IF w_reg.price = level_price
                THEN IF w_reg.action = 1
                     THEN /\ w_pc' = "shift_loop"
                          /\ w_reg' = [w_reg EXCEPT !.x19 = mid, !.x13 = mid + 1,
                                                    !.x20 = found_exact(mid)]
                     ELSE /\ w_pc' = "update_existing_level"
                          /\ w_reg' = [w_reg EXCEPT !.x19 = mid, !.x13 = mid,
                                                    !.x20 = found_exact(mid)]
                ELSE /\ w_pc' = "binary_search"
                     /\ w_reg' =
                          IF w_reg.side = Bid
                          THEN IF w_reg.price > level_price
                               THEN [w_reg EXCEPT !.x13 = mid, !.x12 = mid]
                               ELSE [w_reg EXCEPT !.x13 = mid, !.x11 = mid + 1]
                          ELSE IF w_reg.price < level_price
                               THEN [w_reg EXCEPT !.x13 = mid, !.x12 = mid]
                               ELSE [w_reg EXCEPT !.x13 = mid, !.x11 = mid + 1]
    /\ UNCHANGED <<ema_vars, other_vars, book_vars, r_pc, r_reg, tops>>

\* lines 108-111: str x3, [x15, #8].
W_UpdateExistingLevel ==
    /\ w_pc = "update_existing_level"
    /\ WStore(update_existing_level(WLevels, w_reg.x19, w_reg.qty))
    /\ w_pc' = "update_counts"
    /\ UNCHANGED <<ema_vars, other_vars, bid_count, ask_count, bid_capacity, ask_capacity, sequence,
                   last, changed_calls, w_reg, r_pc, r_reg, tops>>

\* shift_loop: the ldp of levels[x13], or shift_done.
W_ShiftLoop ==
    /\ w_pc = "shift_loop"
    /\ IF w_reg.x13 >= w_reg.x10
       THEN /\ w_pc' = "update_counts"
            /\ w_reg' = [w_reg EXCEPT !.x10 = w_reg.x10 - 1]
       ELSE /\ w_pc' = "shift_store"
            /\ w_reg' = [w_reg EXCEPT !.x16 = WLevels[w_reg.x13].price,
                                      !.x17 = WLevels[w_reg.x13].quantity]
    /\ UNCHANGED <<ema_vars, other_vars, book_vars, r_pc, r_reg, tops>>

\* shift_loop: the stp into levels[x13 - 1].
W_ShiftStore ==
    /\ w_pc = "shift_store"
    /\ WStore([WLevels EXCEPT ![w_reg.x13 - 1] = Level(w_reg.x16, w_reg.x17)])
    /\ w_pc' = "shift_loop"
    /\ w_reg' = [w_reg EXCEPT !.x13 = w_reg.x13 + 1]
    /\ UNCHANGED <<ema_vars, other_vars, bid_count, ask_count, bid_capacity, ask_capacity, sequence,
                   last, changed_calls, r_pc, r_reg, tops>>

\* insert_shift_loop: the ldp of levels[x13 - 1], or the branch to insert_new.
W_InsertShiftLoop ==
    /\ w_pc = "insert_shift_loop"
    /\ IF w_reg.x13 <= w_reg.x11
       THEN w_pc' = "insert_new" /\ UNCHANGED w_reg
       ELSE /\ w_pc' = "insert_shift_store"
            /\ w_reg' = [w_reg EXCEPT !.x16 = WLevels[w_reg.x13 - 1].price,
                                      !.x17 = WLevels[w_reg.x13 - 1].quantity]
    /\ UNCHANGED <<ema_vars, other_vars, book_vars, r_pc, r_reg, tops>>

\* insert_shift_loop: the stp into levels[x13].
W_InsertShiftStore ==
    /\ w_pc = "insert_shift_store"
    /\ WStore([WLevels EXCEPT ![w_reg.x13] = Level(w_reg.x16, w_reg.x17)])
    /\ w_pc' = "insert_shift_loop"
    /\ w_reg' = [w_reg EXCEPT !.x13 = w_reg.x13 - 1]
    /\ UNCHANGED <<ema_vars, other_vars, bid_count, ask_count, bid_capacity, ask_capacity, sequence,
                   last, changed_calls, r_pc, r_reg, tops>>

\* insert_new: str x2, [x15].
W_InsertNew ==
    /\ w_pc = "insert_new"
    /\ WStore([WLevels EXCEPT ![w_reg.x11].price = w_reg.price])
    /\ w_pc' = "insert_new_quantity"
    /\ UNCHANGED <<ema_vars, other_vars, bid_count, ask_count, bid_capacity, ask_capacity, sequence,
                   last, changed_calls, w_reg, r_pc, r_reg, tops>>

\* insert_new: str x3, [x15, #8]; count + 1; the flags.
W_InsertNewQuantity ==
    /\ w_pc = "insert_new_quantity"
    /\ WStore([WLevels EXCEPT ![w_reg.x11].quantity = w_reg.qty])
    /\ w_pc' = "update_counts"
    /\ w_reg' = [w_reg EXCEPT !.x10 = w_reg.x10 + 1,
                              !.x20 = inserted_flags(w_reg.x11)]
    /\ UNCHANGED <<ema_vars, other_vars, bid_count, ask_count, bid_capacity, ask_capacity, sequence,
                   last, changed_calls, r_pc, r_reg, tops>>

\* update_counts / update_bid_count: str w10 into the side's count.
W_UpdateCounts ==
    /\ w_pc = "update_counts"
    /\ IF w_reg.side = Bid
       THEN bid_count' = w_reg.x10 /\ UNCHANGED ask_count
       ELSE ask_count' = w_reg.x10 /\ UNCHANGED bid_count
    /\ w_pc' = "update_sequence"
    /\ UNCHANGED <<ema_vars, other_vars, bids_array, asks_array, bid_capacity, ask_capacity, sequence,
                   last, changed_calls, w_reg, r_pc, r_reg, tops>>

\* update_sequence: ldr / add / str.
W_UpdateSequence ==
    /\ w_pc = "update_sequence"
    /\ sequence' = update_sequence(sequence)
    /\ w_pc' = "skip_insert"
    /\ UNCHANGED <<ema_vars, other_vars, bids_array, asks_array, bid_count, ask_count, bid_capacity,
                   ask_capacity, last, changed_calls, w_reg, r_pc, r_reg, tops>>

\* skip_insert / cleanup: return x20.
W_Return ==
    /\ w_pc = "skip_insert"
    /\ w_pc' = "idle"
    /\ w_reg' = WriterIdle
    /\ changed_calls' = IF book_changed(w_reg.x20) THEN changed_calls + 1
                        ELSE changed_calls
    /\ UNCHANGED <<ema_vars, other_vars, bids_array, asks_array, bid_count, ask_count, bid_capacity,
                   ask_capacity, sequence, last, r_pc, r_reg, tops>>

\* lines 201-206: entry of _nautilus_get_best_bid_ask, load of the pointers.
R_Call ==
    /\ r_pc = "idle"
    /\ r_pc' = "load_bid_count"
    /\ tops' = IF w_pc = "idle"
               THEN {Top(bids_array, bid_count, asks_array, ask_count)}
               ELSE {w_reg.top_before, w_reg.top_after}
    /\ UNCHANGED <<ema_vars, other_vars, book_vars, w_pc, w_reg, r_reg>>

\* ldr w3, [x0, #bid_count]
R_LoadBidCount ==
    /\ r_pc = "load_bid_count"
    /\ r_reg' = [r_reg EXCEPT !.w3 = bid_count]
    /\ r_pc' = "load_ask_count"
    /\ UNCHANGED <<ema_vars, other_vars, book_vars, w_pc, w_reg, tops>>

\* ldr w4, [x0, #ask_count]
R_LoadAskCount ==
    /\ r_pc = "load_ask_count"
    /\ r_reg' = [r_reg EXCEPT !.w4 = ask_count]
    /\ r_pc' = "best_bid"
    /\ UNCHANGED <<ema_vars, other_vars, book_vars, w_pc, w_reg, tops>>

\* cbz w3, no_bids / ldr x5, [x1]
R_BestBid ==
    /\ r_pc = "best_bid"
    /\ r_reg' = [r_reg EXCEPT
                    !.x5 = IF r_reg.w3 = 0 THEN no_bids ELSE bids_array[0].price]
    /\ r_pc' = "check_asks"
    /\ UNCHANGED <<ema_vars, other_vars, book_vars, w_pc, w_reg, tops>>

\* check_asks: cbz w4, no_asks / ldr x6, [x2]
R_CheckAsks ==
    /\ r_pc = "check_asks"
    /\ r_reg' = [r_reg EXCEPT
                    !.x6 = IF r_reg.w4 = 0 THEN no_asks ELSE asks_array[0].price]
    /\ r_pc' = "return_prices"
    /\ UNCHANGED <<ema_vars, other_vars, book_vars, w_pc, w_reg, tops>>

\* return_prices: x0 = x5, x1 = x6, ret.
R_Return ==
    /\ r_pc = "return_prices"
    /\ r_pc' = "idle"
    /\ r_reg' = ReaderIdle
    /\ tops' = {}
    /\ UNCHANGED <<ema_vars, other_vars, book_vars, w_pc, w_reg>>

Writer ==
    \/ W_Call \/ W_BinarySearch \/ W_UpdateExistingLevel
    \/ W_ShiftLoop \/ W_ShiftStore
    \/ W_InsertShiftLoop \/ W_InsertShiftStore
    \/ W_InsertNew \/ W_InsertNewQuantity
    \/ W_UpdateCounts \/ W_UpdateSequence \/ W_Return

Reader ==
    \/ R_Call \/ R_LoadBidCount \/ R_LoadAskCount
    \/ R_BestBid \/ R_CheckAsks \/ R_Return

NextThreads == Writer \/ Reader

SpecThreads == Init /\ [][NextThreads]_vars

\* -------------------------------------------------- claims on the two threads
\* The stepwise writer, when it returns, has done to the book what the routine
\* taken as one step does (both read the same labels of order_book.s).
StepwiseAgrees ==
    w_pc = "skip_insert" =>
        /\ Top(bids_array, bid_count, asks_array, ask_count) = w_reg.top_after
        /\ sequence = changed_calls + (IF book_changed(w_reg.x20) THEN 1 ELSE 0)

\* C8: every pair the reader returns is the top of book of one complete book
\* state that existed while its call ran (the state before a mutation that
\* overlaps the call, or the state after it).
C8_ReaderSeesOneState ==
    r_pc = "return_prices" => <<r_reg.x5, r_reg.x6>> \in tops

\* ------------------------------------------------------------ the EMA kernels
\* Single-precision values are modelled as exact rationals <<num, den>> in
\* lowest terms (den > 0). The values the claims pin down (small integer prices,
\* alpha = 1/2) are exact in binary32, so no rounding is lost on them.
MaxLen == 6
MaxAlphaDen == 2
PriceValues == {10, 20, 30}

RECURSIVE Gcd(_, _)
Gcd(a, b) == IF b = 0 THEN a ELSE Gcd(b, a % b)
Abs(a) == IF a < 0 THEN -a ELSE a
Rat(n, d) == LET g == Gcd(Abs(n), d) IN <<n \div g, d \div g>>
RatAdd(x, y) == Rat(x[1] * y[2] + y[1] * x[2], x[2] * y[2])
RatSub(x, y) == Rat(x[1] * y[2] - y[1] * x[2], x[2] * y[2])
RatMul(x, y) == Rat(x[1] * y[1], x[2] * y[2])
One == <<1, 1>>
Zero == <<0, 1>>
\* alpha = n / d with 0 < n <= d <= MaxAlphaDen.
Alphas == {Rat(q[1], q[2]) :
              q \in {r \in (1..MaxAlphaDen) \X (1..MaxAlphaDen) : r[1] <= r[2]}}
PriceArrays == UNION {[1..n -> {Rat(v, 1) : v \in PriceValues}] : n \in 1..MaxLen}

\* optimized_core.s _fast_ema_update: new_price * alpha + prev_ema * (1 - alpha).
fast_ema_update(new_price, prev_ema, alpha) ==
    RatAdd(RatMul(new_price, alpha), RatMul(prev_ema, RatSub(One, alpha)))

\* part_001 AssemblyEngine.ema_batch: result[0] = prices[0], then one
\* fast_ema_update per sample.
RECURSIVE ema_batch_loop(_, _, _, _, _)
ema_batch_loop(prices, alpha, result, ema_val, i) ==
    IF i > Len(prices) THEN result
    ELSE LET next == fast_ema_update(prices[i], ema_val, alpha)
         IN  ema_batch_loop(prices, alpha, Append(result, next), next, i + 1)

ema_batch(prices, alpha) ==
    ema_batch_loop(prices, alpha, <<prices[1]>>, prices[1], 2)

\* signals.s lines 20-22: ldr s18, [x0]; str s18, [x1].
ema_first_zero(prices) == Zero

ema_first(prices) == prices[1]

\* signals.s ema_vector_loop: each block loads 4 prices, broadcasts the current
\* EMA s18 to all 4 lanes (dup v1.4s, v18.s[0]), computes
\* alpha * price + (1 - alpha) * s18 per lane, stores the 4 results and keeps
\* lane 3 as the next s18.
ema_lanes(prices, alpha, s18, pos) ==
    [j \in 1..4 |-> RatAdd(RatMul(alpha, prices[pos + j - 1]),
                           RatMul(RatSub(One, alpha), s18))]

RECURSIVE ema_vector_loop(_, _, _, _, _, _)
ema_vector_loop(prices, alpha, output, s18, pos, x5) ==
    IF x5 = 0 THEN [output |-> output, s18 |-> s18, pos |-> pos]
    ELSE LET v4 == ema_lanes(prices, alpha, s18, pos)
         IN  ema_vector_loop(prices, alpha, output \o v4, v4[4], pos + 4, x5 - 1)

\* signals.s ema_remaining / ema_scalar_loop: the remaining (count - 1) & 3
\* samples, one at a time.
RECURSIVE ema_scalar_loop(_, _, _, _, _, _)
ema_scalar_loop(prices, alpha, output, s18, pos, x4) ==
    IF x4 = 0 THEN output
    ELSE LET new == RatAdd(RatMul(alpha, prices[pos]),
                           RatMul(RatSub(One, alpha), s18))
         IN  ema_scalar_loop(prices, alpha, Append(output, new), new, pos + 1, x4 - 1)

\* signals.s _nautilus_calculate_ema_vectorized, count >= 1: the output array.
nautilus_calculate_ema_vectorized(prices, alpha) ==
    LET x2 == Len(prices) - 1
        blocks == ema_vector_loop(prices, alpha, <<ema_first(prices)>>,
                                  ema_first(prices), 2, x2 \div 4)
    IN  ema_scalar_loop(prices, alpha, blocks.output, blocks.s18, blocks.pos, x2 % 4)

\* nautilus_hot_paths.s ema_simd_loop: as ema_vector_loop, without the store
\* ("each lane independent", "take last lane as new EMA").
RECURSIVE ema_simd_loop(_, _, _, _, _)
ema_simd_loop(prices, alpha, s18, pos, x4) ==
    IF x4 = 0 THEN [s18 |-> s18, pos |-> pos]
    ELSE LET lane3 == RatAdd(RatMul(alpha, prices[pos + 3]),
                             RatMul(RatSub(One, alpha), s18))
         IN  ema_simd_loop(prices, alpha, lane3, pos + 4, x4 - 1)

\* nautilus_hot_paths.s ema_remaining / ema_scalar_loop.
RECURSIVE fast_ema_scalar_loop(_, _, _, _, _)
fast_ema_scalar_loop(prices, alpha, s18, pos, x3) ==
    IF x3 = 0 THEN s18
    ELSE fast_ema_scalar_loop(prices, alpha,
                              RatAdd(RatMul(alpha, prices[pos]),
                                     RatMul(RatSub(One, alpha), s18)),
                              pos + 1, x3 - 1)

\* nautilus_hot_paths.s _fast_ema_calculation, count >= 1: the final s18.
fast_ema_calculation(prices, alpha) ==
    LET x20 == Len(prices) - 1
        blocks == ema_simd_loop(prices, alpha, prices[1], 2, x20 \div 4)
    IN  fast_ema_scalar_loop(prices, alpha, blocks.s18, blocks.pos, x20 % 4)

InitEma ==
    /\ EmptyBook
    /\ NoOther
    /\ ema_prices \in PriceArrays
    /\ ema_alpha \in Alphas
    /\ ema_called = {}
    /\ ema_output = << >>
    /\ batch_result = << >>
    /\ fast_result = Zero

\* AssemblySignalEngine.calculate_ema(prices, alpha)
CalculateEma ==
    /\ "calculate_ema" \notin ema_called
    /\ ema_called' = ema_called \cup {"calculate_ema"}
    /\ ema_output' = nautilus_calculate_ema_vectorized(ema_prices, ema_alpha)
    /\ UNCHANGED <<book_vars, thread_vars, other_vars, ema_prices, ema_alpha, batch_result,
                   fast_result>>

\* AssemblyEngine.ema_batch(prices, alpha)
EmaBatch ==
    /\ "ema_batch" \notin ema_called
    /\ ema_called' = ema_called \cup {"ema_batch"}
    /\ batch_result' = ema_batch(ema_prices, ema_alpha)
    /\ UNCHANGED <<book_vars, thread_vars, other_vars, ema_prices, ema_alpha, ema_output,
                   fast_result>>

\* FastIndicatorEngine.ema(prices, alpha)
FastEma ==
    /\ "ema" \notin ema_called
    /\ ema_called' = ema_called \cup {"ema"}
    /\ fast_result' = fast_ema_calculation(ema_prices, ema_alpha)
    /\ UNCHANGED <<book_vars, thread_vars, other_vars, ema_prices, ema_alpha, ema_output,
                   batch_result>>

NextEma == CalculateEma \/ EmaBatch \/ FastEma

SpecEma == InitEma /\ [][NextEma]_vars

\* --------------------------------------------------- claims on the EMA kernels
\* The scalar recurrence: ema[0] = price[0],
\* ema[i] = alpha * price[i] + (1 - alpha) * ema[i - 1].
RECURSIVE Recurrence(_, _, _)
Recurrence(prices, alpha, i) ==
    IF i = 1 THEN prices[1]
    ELSE RatAdd(RatMul(alpha, prices[i]),
                RatMul(RatSub(One, alpha), Recurrence(prices, alpha, i - 1)))

\* C9: the vectorized kernels reproduce the scalar recurrence for every length:
\* calculate_ema writes exactly that sequence, identical to ema_batch, and
\* fast_ema_calculation returns its last element.
C9_VectorizedIsRecurrence ==
    /\ "calculate_ema" \in ema_called =>
           ema_output = [i \in 1..Len(ema_prices) |->
                            Recurrence(ema_prices, ema_alpha, i)]
    /\ {"calculate_ema", "ema_batch"} \subseteq ema_called =>
           ema_output = batch_result
    /\ "ema" \in ema_called =>
           fast_result = Recurrence(ema_prices, ema_alpha, Len(ema_prices))

\* C10: the first output equals the first input price, and
\* EMA([10, 20, 30], alpha = 1/2) is exactly [10, 15, 22.5].
C10_FirstOutputAndScenario ==
    "calculate_ema" \in ema_called =>
        /\ Len(ema_output) = Len(ema_prices)
        /\ ema_output[1] = ema_prices[1]
        /\ (ema_prices = <<Rat(10, 1), Rat(20, 1), Rat(30, 1)>> /\ ema_alpha = Rat(1, 2))
               => ema_output = <<Rat(10, 1), Rat(15, 1), Rat(45, 2)>>

\* C10 witness: calculate_ema has run on [10, 20, 30] with alpha = 1/2.
C10_Witness ==
    /\ "calculate_ema" \in ema_called
    /\ ema_prices = <<Rat(10, 1), Rat(20, 1), Rat(30, 1)>>
    /\ ema_alpha = Rat(1, 2)

\* ------------------------------------------------ EMA calls with any alpha
\* calculate_ema takes alpha as a C float and passes it on: the caller can hand
\* over any value, so these are the values outside (0, 1] next to Alphas.
BadAlphas == {Zero, Rat(-1, MaxAlphaDen), Rat(MaxAlphaDen + 1, MaxAlphaDen)}

InitEmaAnyAlpha ==
    /\ EmptyBook
    /\ NoOther
    /\ ema_prices \in PriceArrays
    /\ ema_alpha \in Alphas \cup BadAlphas
    /\ ema_called = {}
    /\ ema_output = << >>
    /\ batch_result = << >>
    /\ fast_result = Zero

SpecEmaAnyAlpha == InitEmaAnyAlpha /\ [][NextEma]_vars

\* 0 < alpha <= 1 on <<num, den>> with den > 0.
AlphaInRange(alpha) == alpha[1] > 0 /\ alpha[1] <= alpha[2]

\* C11: a calculate_ema call whose alpha lies outside (0, 1] is rejected: no
\* output element is written and alpha is not used.
C11_InvalidAlphaRejected ==
    ("calculate_ema" \in ema_called /\ ~AlphaInRange(ema_alpha)) =>
        ema_output = << >>

\* ------------------------------------------------------------- the RSI kernel
MaxRsiLen == 5
RsiPriceValues == {1, 2}
RsiFloats == {Rat(v, 1) : v \in RsiPriceValues}
\* prices may be empty (prices.shape[0] = 0).
RsiPriceArrays == UNION {[1..n -> RsiFloats] : n \in 0..MaxRsiLen}
\* period is a C int handed over unchecked: 0, 1..count and beyond count.
Periods == 0..(MaxRsiLen + 1)
\* price indices (from 0) the kernel can form: -1 up to the largest period.
MemIndexes == (-1)..(MaxRsiLen + 1)

\* Single-precision values: <<num, den>> with den > 0, and the NaN that 0/0
\* produces.  A finite non-zero value divided by zero gives an infinity,
\* <<1, 0>> or <<-1, 0>>; the kernel only ever divides zero or NaN by zero.
NaN == <<0, 0>>
IsNaN(x) == x = NaN
FAdd(x, y) == IF IsNaN(x) \/ IsNaN(y) THEN NaN ELSE RatAdd(x, y)
FSub(x, y) == IF IsNaN(x) \/ IsNaN(y) THEN NaN ELSE RatSub(x, y)
FMul(x, y) == IF IsNaN(x) \/ IsNaN(y) THEN NaN ELSE RatMul(x, y)
FNeg(x) == IF IsNaN(x) THEN NaN ELSE <<-x[1], x[2]>>
FDiv(x, y) ==
    IF IsNaN(x) \/ IsNaN(y) THEN NaN
    ELSE IF y[1] = 0 THEN (IF x[1] = 0 THEN NaN
                           ELSE IF x[1] > 0 THEN <<1, 0>> ELSE <<-1, 0>>)
    ELSE IF y[1] > 0 THEN Rat(x[1] * y[2], x[2] * y[1])
    ELSE Rat(-(x[1] * y[2]), x[2] * (-y[1]))
\* scvtf: signed integer to float.
scvtf(x) == <<x, 1>>
\* fcmp s, #0.0 followed by b.lt: taken when s < 0 or the compare is unordered.
fcmp_b_lt(s) == IsNaN(s) \/ s[1] < 0
\* fcmp s, #0.0 followed by b.eq: taken when s = 0 (never when unordered).
fcmp_b_eq(s) == ~IsNaN(s) /\ s[1] = 0
Hundred == <<100, 1>>

\* signals.s initial_period_loop: for x20 = 1 .. period, the change
\* prices[x20] - prices[x20 - 1] is added to s20 (gains) or s21 (losses).
RECURSIVE initial_period_loop(_, _, _, _, _, _)
initial_period_loop(mem, x19, x20, s20, s21, loads) ==
    IF x20 > x19 THEN [s20 |-> s20, s21 |-> s21, loads |-> loads]
    ELSE LET s2 == FSub(mem[x20], mem[x20 - 1])
             ld == loads \o <<x20, x20 - 1>>
         IN  IF fcmp_b_lt(s2)
             THEN initial_period_loop(mem, x19, x20 + 1, s20, FAdd(s21, FNeg(s2)), ld)
             ELSE initial_period_loop(mem, x19, x20 + 1, FAdd(s20, s2), s21, ld)

\* signals.s calculate_smoothed_averages: ((period - 1) * avg + current) / period.
calculate_smoothed_averages(x19, avg, current) ==
    FDiv(FAdd(FMul(scvtf(x19 - 1), avg), current), scvtf(x19))

\* signals.s lines 180-192: 100 when avg_loss = 0, else 100 - 100 / (1 + RS).
rsi_value(s20, s21) ==
    IF fcmp_b_eq(s21) THEN Hundred
    ELSE FSub(Hundred, FDiv(Hundred, FAdd(One, FDiv(s20, s21))))

\* signals.s rsi_calculation_loop: for x20 from period (mov x20, x19) while
\* x20 < count: smooth with the change at x20, store the RSI at output[x20].
RECURSIVE rsi_calculation_loop(_, _, _, _, _, _, _, _, _)
rsi_calculation_loop(mem, x19, x2, x20, s20, s21, output, stores, loads) ==
    IF x20 >= x2 THEN [output |-> output, stores |-> stores, loads |-> loads]
    ELSE LET s2 == FSub(mem[x20], mem[x20 - 1])
             s3 == IF fcmp_b_lt(s2) THEN Zero ELSE s2
             s4 == IF fcmp_b_lt(s2) THEN FNeg(s2) ELSE Zero
             gain == calculate_smoothed_averages(x19, s20, s3)
             loss == calculate_smoothed_averages(x19, s21, s4)
         IN  rsi_calculation_loop(mem, x19, x2, x20 + 1, gain, loss,
                                  [output EXCEPT ![x20 + 1] = rsi_value(gain, loss)],
                                  Append(stores, [x20 |-> x20, s20 |-> gain,
                                                  s21 |-> loss]),
                                  loads \o <<x20, x20 - 1>>)

\* signals.s _nautilus_calculate_rsi_vectorized(prices, output, count, period)
\* on the memory mem around the prices pointer; output holds count zeros.
nautilus_calculate_rsi_vectorized(mem, output, x2, x3) ==
    LET sums == initial_period_loop(mem, x3, 1, Zero, Zero, << >>)
        s24 == scvtf(x3)
    IN  rsi_calculation_loop(mem, x3, x2, x3, FDiv(sums.s20, s24),
                             FDiv(sums.s21, s24), output, << >>, sums.loads)

\* The loads up to and including the first one outside prices[0 .. count - 1].
RECURSIVE UntilStray(_, _, _)
UntilStray(loads, count, k) ==
    IF k > Len(loads) THEN loads
    ELSE IF loads[k] < 0 \/ loads[k] >= count THEN SubSeq(loads, 1, k)
    ELSE UntilStray(loads, count, k + 1)

InitRsi ==
    /\ EmptyBook
    /\ NoEma
    /\ NoRisk
    /\ NoPortfolio
    /\ NoExt
    /\ rsi_prices \in RsiPriceArrays
    /\ rsi_period \in Periods
    /\ rsi_result = "idle"
    /\ rsi_output = << >>
    /\ rsi_stores = << >>
    /\ rsi_loads = << >>

\* AssemblySignalEngine.calculate_rsi(prices, period): output = np.zeros(count),
\* then the kernel on &prices[0], &output[0].  Memory outside the prices array
\* holds arbitrary values; a load from it either returns one of them or faults.
\* With boundscheck on, &prices[0] of an empty array raises IndexError.
CalculateRsi ==
    /\ rsi_result = "idle"
    /\ LET count == Len(rsi_prices)
           zeros == [i \in 1..count |-> Zero]
       IN  \E stray \in [MemIndexes \ (0..(count - 1)) -> RsiFloats] :
             LET mem == [i \in MemIndexes |->
                            IF i \in 0..(count - 1) THEN rsi_prices[i + 1]
                            ELSE stray[i]]
                 run == nautilus_calculate_rsi_vectorized(mem, zeros, count,
                                                          rsi_period)
                 upto == UntilStray(run.loads, count, 1)
             IN  \/ /\ rsi_result' = "returned"
                    /\ rsi_output' = run.output
                    /\ rsi_stores' = run.stores
                    /\ rsi_loads' = run.loads
                 \/ /\ upto # run.loads \/ (upto # << >> /\
                          LET a == upto[Len(upto)] IN a < 0 \/ a >= count)
                    /\ rsi_result' = "fault"
                    /\ rsi_output' = zeros
                    /\ rsi_stores' = << >>
                    /\ rsi_loads' = upto
                 \/ /\ count = 0
                    /\ rsi_result' = "IndexError"
                    /\ rsi_output' = << >>
                    /\ rsi_stores' = << >>
                    /\ rsi_loads' = << >>
    /\ UNCHANGED <<book_vars, thread_vars, ema_vars, risk_vars, pvar_vars, ext_vars,
                   rsi_prices, rsi_period>>

NextRsi == CalculateRsi

SpecRsi == InitRsi /\ [][NextRsi]_vars

\* --------------------------------------------------- claims on the RSI kernel
\* Change k of a price array (k from 1): prices[k] - prices[k - 1], indices
\* from 0; its gain and its loss.
Change(prices, k) == RatSub(prices[k + 1], prices[k])
GainOf(prices, k) ==
    IF Change(prices, k)[1] > 0 THEN Change(prices, k) ELSE Zero
LossOf(prices, k) ==
    IF Change(prices, k)[1] < 0 THEN FNeg(Change(prices, k)) ELSE Zero

\* Wilder's averages after change k >= P: the mean of the first P gains
\* (losses) at k = P, smoothed once with each later change.
RECURSIVE SeedSum(_, _, _)
SeedSum(prices, k, loss) ==
    IF k = 0 THEN Zero
    ELSE RatAdd(SeedSum(prices, k - 1, loss),
                IF loss THEN LossOf(prices, k) ELSE GainOf(prices, k))

RECURSIVE WilderAvg(_, _, _, _)
WilderAvg(prices, P, k, loss) ==
    IF k = P THEN FDiv(SeedSum(prices, P, loss), <<P, 1>>)
    ELSE FDiv(RatAdd(RatMul(<<P - 1, 1>>, WilderAvg(prices, P, k - 1, loss)),
                     IF loss THEN LossOf(prices, k) ELSE GainOf(prices, k)),
              <<P, 1>>)

WilderRsi(prices, P, k) ==
    LET g == WilderAvg(prices, P, k, FALSE)
        l == WilderAvg(prices, P, k, TRUE)
    IN  IF l = Zero THEN Hundred
        ELSE RatSub(Hundred, FDiv(Hundred, RatAdd(One, FDiv(g, l))))

\* C12: for 1 <= P < n the output at every index k in P..n-1 is the RSI of
\* Wilder's averages with each change used once (seed at k = P, one smoothing
\* per later index), and RSI(period = 2, [1, 2, 1, 2, 1]) is 50, 75, 37.5 at
\* indices 2, 3, 4.
C12_WilderEachChangeOnce ==
    (rsi_result = "returned" /\ rsi_period >= 1 /\ rsi_period < Len(rsi_prices)) =>
        /\ \A k \in rsi_period..(Len(rsi_prices) - 1) :
               rsi_output[k + 1] = WilderRsi(rsi_prices, rsi_period, k)
        /\ (rsi_period = 2 /\ rsi_prices = <<Rat(1, 1), Rat(2, 1), Rat(1, 1),
                                             Rat(2, 1), Rat(1, 1)>>)
               => SubSeq(rsi_output, 3, 5) = <<Rat(50, 1), Rat(75, 1), Rat(75, 2)>>

\* C13: at every stored index i >= P, if none of the P changes ending at i is
\* negative the output is 100; and the output is 100 exactly when avg_loss = 0,
\* 100 - 100 / (1 + avg_gain / avg_loss) otherwise.
C13_NoLossIsHundred ==
    rsi_result = "returned" =>
        \A n \in 1..Len(rsi_stores) :
            LET st == rsi_stores[n]
                i == st.x20
                out == rsi_output[i + 1]
            IN  /\ (\A k \in (i - rsi_period + 1)..i :
                        k >= 1 => Change(rsi_prices, k)[1] >= 0)
                       => out = Hundred
                /\ (out = Hundred) <=> (st.s21 = Zero)
                /\ st.s21 # Zero =>
                       out = FSub(Hundred, FDiv(Hundred,
                                                FAdd(One, FDiv(st.s20, st.s21))))

\* C14: a call with 1 <= P <= n stores at exactly the indices P..n-1, once
\* each, and loads no price outside 0..n-1.
C14_WritesExactlyValidRange ==
    (rsi_result # "idle" /\ rsi_period >= 1 /\ rsi_period <= Len(rsi_prices)) =>
        /\ {rsi_stores[n].x20 : n \in 1..Len(rsi_stores)} =
               rsi_period..(Len(rsi_prices) - 1)
        /\ Len(rsi_stores) = Len(rsi_prices) - rsi_period
        /\ \A n \in 1..Len(rsi_loads) :
               rsi_loads[n] >= 0 /\ rsi_loads[n] < Len(rsi_prices)

\* C15: a call on an empty input returns an empty output; on a non-empty
\* input, period = 0 or period > length fails with InvalidParameter without
\* loading a price or storing an output element.
C15_InvalidPeriodRejected ==
    rsi_result # "idle" =>
        /\ Len(rsi_prices) = 0 =>
               (rsi_result = "returned" /\ rsi_output = << >>)
        /\ (Len(rsi_prices) > 0 /\
            (rsi_period = 0 \/ rsi_period > Len(rsi_prices))) =>
               /\ rsi_result = "InvalidParameter"
               /\ rsi_loads = << >>
               /\ rsi_stores = << >>

\* ------------------------------------------------- the order batch validation
MaxBatch == 2
\* w registers are 32 bits wide, the result mask (x4) 64 bits.
MaxInt32 == 2147483647
WordBits == 64
MinInt32 == -MaxInt32 - 1
Symbols == {0, 1}
Int32Samples == {MinInt32, -1, 0, 1, MaxInt32}

\* add w14, w13, w9: 32-bit addition, wrapping.
Add32(a, b) ==
    IF a > 0 /\ b > MaxInt32 - a THEN (a + MinInt32) + (b + MinInt32)
    ELSE IF a < 0 /\ b < MinInt32 - a THEN (a - MinInt32) + (b - MinInt32)
    ELSE a + b
\* neg w16, w15: 32-bit negation, wrapping.
Neg32(a) == IF a = MinInt32 THEN MinInt32 ELSE -a

\* risk_engine.s validation_loop, one order: symbol_id, quantity, price from
\* the 16-byte order record; current_position from the word at byte offset
\* symbol_id * 8 of the positions buffer (word 2 * symbol_id); the four
\* compares b.gt / b.lt / b.lt / b.gt lead to order_invalid.
check_order(order, mem, limits) ==
    LET w8 == order.symbol_id
        w9 == order.quantity
        w10 == order.price
        w13 == mem[2 * w8]
        w14 == Add32(w13, w9)
        w15 == limits.max_position_size
    IN  [word |-> 2 * w8, w13 |-> w13, w14 |-> w14,
         valid |-> /\ ~(w14 > w15)
                   /\ ~(w14 < Neg32(w15))
                   /\ ~(w10 < limits.min_price)
                   /\ ~(w10 > limits.max_price)]

\* order_valid: mov x6, #1; lsl x6, x6, x5; orr x4, x4, x6.  A register shift
\* takes its amount modulo 64; the mask is held as the set of its set bits.
order_valid(x4, x5) == x4 \cup {x5 % WordBits}

\* _nautilus_validate_order_batch(orders, positions, limits, count): x5 runs
\* from 0 while x5 < count.
RECURSIVE validation_loop(_, _, _, _, _, _, _)
validation_loop(orders, mem, limits, x3, x5, x4, checked) ==
    IF x5 >= x3 THEN [checked |-> checked, mask |-> x4]
    ELSE LET c == check_order(orders[x5 + 1], mem, limits)
         IN  validation_loop(orders, mem, limits, x3, x5 + 1,
                             IF c.valid THEN order_valid(x4, x5) ELSE x4,
                             Append(checked, c))

nautilus_validate_order_batch(orders, mem, limits, count) ==
    validation_loop(orders, mem, limits, count, 0, {}, << >>)

\* int(x) of a Python float: truncation toward zero.
Trunc(x) == IF x[1] >= 0 THEN x[1] \div x[2] ELSE -((-x[1]) \div x[2])

\* _copy_orders_to_buffer: symbol_id, quantity, int(price * 100), padding.
copy_orders_to_buffer(orders) ==
    [i \in 1..Len(orders) |->
        [symbol_id |-> orders[i].symbol_id,
         quantity |-> orders[i].quantity,
         price |-> Trunc(RatMul(orders[i].price, Hundred))]]

\* _copy_positions_to_buffer: for the i-th item of the dict, in iteration
\* order, word 2i holds the symbol id and word 2i + 1 the position.
copy_positions_to_buffer(positions) ==
    [w \in 0..(2 * Len(positions) - 1) |->
        IF w % 2 = 0 THEN positions[(w \div 2) + 1][1]
        ELSE positions[(w \div 2) + 1][2]]

\* _copy_limits_to_buffer: max_position_size, int(min_price * 100),
\* int(max_price * 100).
copy_limits_to_buffer(limits) ==
    [max_position_size |-> limits.max_position_size,
     min_price |-> Trunc(RatMul(limits.min_price, Hundred)),
     max_price |-> Trunc(RatMul(limits.max_price, Hundred))]

\* validate_order_batch lines 220-222: result[i] = (result_mask & (1 << i)) != 0
\* with i a Python integer: 1 << i is bit i alone, for every i.
mask_to_list(mask, count) == [i \in 1..count |-> (mask \cap {i - 1}) # {}]

\* The checks up to and including the first load outside the positions buffer.
RECURSIVE UntilOutside(_, _, _)
UntilOutside(checked, words, k) ==
    IF k > Len(checked) THEN checked
    ELSE IF checked[k].word >= words THEN SubSeq(checked, 1, k)
    ELSE UntilOutside(checked, words, k + 1)

\* ---- arguments
\* Python-level orders: price in currency units (0.01, 0.015, 0.03).
PyPrices == {Rat(1, 100), Rat(3, 200), Rat(3, 100)}
PyOrders == [symbol_id : Symbols, quantity : {0, 1}, price : PyPrices]
\* batches of up to MaxBatch orders, and batches one longer than the mask is
\* wide: WordBits times order b, then order a (both flat orders on symbol 0).
FlatOrders == {o \in PyOrders : o.symbol_id = 0 /\ o.quantity = 0}
PyBatches ==
    UNION {[1..n -> PyOrders] : n \in 0..MaxBatch}
    \cup {[i \in 1..(WordBits + 1) |-> IF i <= WordBits THEN ab[2] ELSE ab[1]] :
             ab \in FlatOrders \X FlatOrders}
\* a dict symbol_id -> position as its items in iteration order (keys distinct).
KeyOrders ==
    {k \in UNION {[1..n -> Symbols] : n \in 0..Cardinality(Symbols)} :
        \A i, j \in 1..Len(k) : i # j => k[i] # k[j]}
PositionDicts ==
    UNION {{[i \in 1..Len(k) |-> <<k[i], v[i]>>] : v \in [1..Len(k) -> {-1, 1}]} :
              k \in KeyOrders}
PyLimits ==
    {[max_position_size |-> m, min_price |-> Rat(1, 100),
      max_price |-> Rat(2, 100)] : m \in {1, MaxInt32}}
\* words of the positions buffer the kernel can address, and what a word
\* outside the buffer may hold.
PositionWords == 0..(2 * Cardinality(Symbols) - 1)
LoadedWords == {2 * sym : sym \in Symbols}
StrayWords == {MinInt32, 0, MaxInt32}
\* C-level arguments of the kernel: a positions buffer with one 8-byte entry
\* per symbol, current position in its first word.
KernelOrders == [symbol_id : Symbols, quantity : {-1, 0, 1, MaxInt32},
                 price : 0..3]
\* one order at a time: batches of several orders go through the wrapper.
KernelBatches == {<< >>} \cup {<<o>> : o \in KernelOrders}
KernelPositions ==
    {[w \in PositionWords |-> IF w % 2 = 0 THEN f[w \div 2] ELSE 0] :
        f \in [Symbols -> Int32Samples]}
KernelLimits ==
    {[max_position_size |-> m, min_price |-> 1, max_price |-> 2] :
        m \in {1, MaxInt32}}

PyCalls ==
    {[entry |-> "validate_order_batch", orders |-> o, positions |-> p,
      limits |-> l] : o \in PyBatches, p \in PositionDicts, l \in PyLimits}
KernelCalls ==
    {[entry |-> "nautilus_validate_order_batch", orders |-> o, positions |-> p,
      limits |-> l] : o \in KernelBatches, p \in KernelPositions,
                      l \in KernelLimits}

\* The call about to be made, with its arguments.
InitRisk ==
    /\ EmptyBook
    /\ NoEma
    /\ NoRsi
    /\ NoPortfolio
    /\ NoExt
    /\ risk_call \in PyCalls \cup KernelCalls
    /\ risk_buffers = NoBuffers
    /\ risk_run = NoRun
    /\ risk_result = NoResult

\* The three working buffers of validate_order_batch, in malloc (and free) order.
RiskBufferOrder == <<"order_buffer", "position_buffer", "limits_buffer">>
RiskBufferNames == {RiskBufferOrder[k] : k \in 1..Len(RiskBufferOrder)}

\* A failure path that returns without freeing what it got.
free_nothing(order, got) == << >>

\* 'if x_buffer != NULL: free(x_buffer)' for each buffer in turn.
free_allocated(order, got) == SelectSeq(order, LAMBDA b : b \in got)

\* AssemblyRiskEngine.validate_order_batch(orders, positions, limits)
ValidateOrderBatch ==
    /\ risk_call.entry = "validate_order_batch"
    /\ risk_result.status = "idle"
    /\ LET orders == risk_call.orders
           count == Len(orders)
           words == 2 * Len(risk_call.positions)
           bufs == [orders |-> copy_orders_to_buffer(orders),
                    positions |-> copy_positions_to_buffer(risk_call.positions),
                    limits |-> copy_limits_to_buffer(risk_call.limits)]
       IN  IF count = 0
           THEN /\ risk_result' = [status |-> "returned", result |-> << >>]
                /\ UNCHANGED <<risk_buffers, risk_run, risk_heap>>
           ELSE \E got \in SUBSET RiskBufferNames :  \* mallocs that returned non-NULL
                  IF got # RiskBufferNames
                  THEN /\ risk_result' = [status |-> "MemoryError", result |-> << >>]
                       /\ risk_heap' = [allocated |-> got,
                                        failed |-> RiskBufferNames \ got,
                                        frees |-> free_allocated(RiskBufferOrder, got),
                                        kernel |-> FALSE]
                       /\ UNCHANGED <<risk_buffers, risk_run>>
                  ELSE \E stray \in [{w \in LoadedWords : w >= words} -> StrayWords] :
                        LET mem == [w \in LoadedWords \cup (0..(words - 1)) |->
                                       IF w < words THEN bufs.positions[w]
                                       ELSE stray[w]]
                            run == nautilus_validate_order_batch(bufs.orders, mem,
                                                                 bufs.limits, count)
                            upto == UntilOutside(run.checked, words, 1)
                        IN  /\ risk_buffers' = [bufs EXCEPT !.positions = mem]
                            /\ \/ /\ risk_run' = run
                                  /\ risk_result' =
                                         [status |-> "returned",
                                          result |-> mask_to_list(run.mask, count)]
                                  /\ risk_heap' = [allocated |-> got,
                                                   failed |-> RiskBufferNames \ got,
                                                   frees |-> RiskBufferOrder,
                                                   kernel |-> TRUE]
                               \/ \* a load outside the buffer faults
                                  /\ upto[Len(upto)].word >= words
                                  /\ risk_run' = [checked |-> upto, mask |-> {}]
                                  /\ risk_result' = [status |-> "fault",
                                                     result |-> << >>]
                                  /\ risk_heap' = [allocated |-> got,
                                                   failed |-> RiskBufferNames \ got,
                                                   frees |-> << >>,
                                                   kernel |-> TRUE]
    /\ UNCHANGED <<book_vars, thread_vars, ema_vars, rsi_vars, pvar_vars, tick_vars,
                   late_vars, risk_call>>

\* nautilus_validate_order_batch(orders, positions, limits, count) called on
\* C buffers (assembly_engine.h).
KernelValidateOrderBatch ==
    /\ risk_call.entry = "nautilus_validate_order_batch"
    /\ risk_result.status = "idle"
    /\ risk_buffers' = [orders |-> risk_call.orders,
                        positions |-> risk_call.positions,
                        limits |-> risk_call.limits]
    /\ risk_run' = nautilus_validate_order_batch(risk_call.orders,
                                                 risk_call.positions,
                                                 risk_call.limits,
                                                 Len(risk_call.orders))
    /\ risk_result' = [status |-> "returned", result |-> << >>]
    /\ UNCHANGED <<book_vars, thread_vars, ema_vars, rsi_vars, pvar_vars, ext_vars,
                   risk_call>>

NextRisk == ValidateOrderBatch \/ KernelValidateOrderBatch

SpecRisk == InitRisk /\ [][NextRisk]_vars

\* ------------------------------------------ claims on the batch validation
\* a + b lies outside the 32-bit range.
Overflows(a, b) ==
    \/ a > 0 /\ b > MaxInt32 - a
    \/ a < 0 /\ b < MinInt32 - a

\* -max <= position + quantity <= max over the integers (a sum outside the
\* 32-bit range is outside every such interval).
WithinPositionLimit(position, quantity, max) ==
    /\ ~Overflows(position, quantity)
    /\ position + quantity <= max
    /\ max # MinInt32
    /\ -max <= position + quantity

\* The kernel's four compares are inclusive on the sum it computed (w14).
ComparesAreInclusive ==
    \A i \in 1..Len(risk_run.checked) :
        LET c == risk_run.checked[i]
            o == risk_buffers.orders[i]
            l == risk_buffers.limits
        IN  c.valid <=> /\ c.w14 <= l.max_position_size
                        /\ c.w14 >= Neg32(l.max_position_size)
                        /\ o.price >= l.min_price
                        /\ o.price <= l.max_price

\* C16: the kernel marks an order valid if and only if
\* -max_position_size <= position + quantity <= max_position_size and
\* min_price <= price <= max_price, all four bounds inclusive.
C16_ValidIffWithinInclusiveBounds ==
    risk_result.status = "returned" =>
        \A i \in 1..Len(risk_run.checked) :
            LET c == risk_run.checked[i]
                o == risk_buffers.orders[i]
                l == risk_buffers.limits
            IN  c.valid <=>
                    /\ WithinPositionLimit(c.w13, o.quantity, l.max_position_size)
                    /\ l.min_price <= o.price
                    /\ o.price <= l.max_price

HasPosition(positions, sym) == \E i \in 1..Len(positions) : positions[i][1] = sym
PositionOf(positions, sym) ==
    positions[CHOOSE i \in 1..Len(positions) : positions[i][1] = sym][2]

\* C17: for every order of a validate_order_batch call, the current position the
\* kernel adds to the quantity is loaded from inside the positions buffer and
\* is the caller's position for the order's symbol id.
C17_LoadsCallersPosition ==
    risk_call.entry = "validate_order_batch" =>
        \A i \in 1..Len(risk_run.checked) :
            LET c == risk_run.checked[i]
                sym == risk_call.orders[i].symbol_id
            IN  /\ c.word < 2 * Len(risk_call.positions)
                /\ HasPosition(risk_call.positions, sym) =>
                       c.w13 = PositionOf(risk_call.positions, sym)

\* Order i of the call validated in a batch of its own, on the same positions
\* and limits.
ValidatedAlone(i) ==
    mask_to_list(nautilus_validate_order_batch(<<risk_buffers.orders[i]>>,
                                               risk_buffers.positions,
                                               risk_buffers.limits, 1).mask, 1)[1]

\* C18: the result for order i equals the result of validating order i alone
\* against the same positions and limits, whatever else is in the batch, and
\* the positions and limits buffers at return are those built at entry.
C18_EachOrderOnItsOwn ==
    (risk_call.entry = "validate_order_batch" /\ risk_result.status = "returned"
     /\ Len(risk_call.orders) > 0) =>
        /\ \A i \in 1..Len(risk_call.orders) :
               risk_result.result[i] = ValidatedAlone(i)
        /\ \A w \in 0..(2 * Len(risk_call.positions) - 1) :
               risk_buffers.positions[w] =
                   copy_positions_to_buffer(risk_call.positions)[w]
        /\ risk_buffers.limits = copy_limits_to_buffer(risk_call.limits)

\* C19: for every batch length n (also n > 64) validate_order_batch returns n
\* booleans and result[i] is true if and only if order i passed the kernel's
\* checks.
C19_OneResultPerOrder ==
    (risk_call.entry = "validate_order_batch" /\ risk_result.status = "returned") =>
        /\ Len(risk_result.result) = Len(risk_call.orders)
        /\ \A i \in 1..Len(risk_run.checked) :
               risk_result.result[i] <=> risk_run.checked[i].valid

\* ----------------------------------------------------------- portfolio VaR
MaxAssets == 2
Weights == {Rat(-1, 1), Rat(1, 1)}
Volatilities == {Rat(1, 1), Rat(2, 1)}
Correlations == {Rat(-1, 1), Rat(1, 1)}

\* fsqrt: NaN for a NaN or negative operand; otherwise the root, kept as its
\* radicand.
fsqrt(x) ==
    IF IsNaN(x) \/ x[1] < 0 THEN [nan |-> TRUE, sqrt |-> Zero]
    ELSE [nan |-> FALSE, sqrt |-> x]
\* fmul by 1e8 then fcvtzs: NaN converts to the integer 0, which is also the
\* scaled root of 0; any other value is kept as the scaled root of its radicand.
scale_and_convert(s16) ==
    IF s16.nan THEN [scaled_sqrt |-> Zero] ELSE [scaled_sqrt |-> s16.sqrt]

\* risk_engine.s inner_variance_loop: weight_j and volatility_j from byte
\* offset j * 8 of their arrays (float index 2j), correlation_ij from byte
\* offset (i * count + j) * 4; s16 += (w_i * w_j) * ((vol_i * vol_j) * corr_ij).
RECURSIVE inner_variance_loop(_, _, _, _, _, _, _, _)
inner_variance_loop(pmem, cmem, vmem, x19, x4, x6, s16, loads) ==
    IF x6 >= x19 THEN [s16 |-> s16, loads |-> loads]
    ELSE LET s0 == pmem[2 * x4]
             s1 == vmem[2 * x4]
             s2 == pmem[2 * x6]
             s3 == vmem[2 * x6]
             s4 == cmem[x4 * x19 + x6]
             s5 == FMul(FMul(s1, s3), s4)
             s6 == FMul(FMul(s0, s2), s5)
         IN  inner_variance_loop(pmem, cmem, vmem, x19, x4, x6 + 1,
                                 FAdd(s16, s6), loads \cup {2 * x6})

\* risk_engine.s outer_variance_loop: weight_i and volatility_i from byte
\* offset i * 8 (float index 2i).
RECURSIVE outer_variance_loop(_, _, _, _, _, _, _)
outer_variance_loop(pmem, cmem, vmem, x19, x4, s16, loads) ==
    IF x4 >= x19 THEN [s16 |-> s16, loads |-> loads]
    ELSE LET inner == inner_variance_loop(pmem, cmem, vmem, x19, x4, 0, s16,
                                          loads \cup {2 * x4})
         IN  outer_variance_loop(pmem, cmem, vmem, x19, x4 + 1, inner.s16,
                                 inner.loads)

\* _nautilus_calculate_portfolio_var(positions, correlations, volatilities,
\* count): x0 and, as history, the float indices loaded from positions and
\* volatilities.
nautilus_calculate_portfolio_var(pmem, cmem, vmem, count) ==
    LET sum == outer_variance_loop(pmem, cmem, vmem, count, 0, Zero, {})
    IN  [x0 |-> scale_and_convert(fsqrt(sum.s16)), loads |-> sum.loads]

\* float arrays of count elements (count * count correlations, row by row).
PortfolioCalls ==
    UNION {[positions : [0..(n - 1) -> Weights],
            correlations : [0..(n * n - 1) -> Correlations],
            volatilities : [0..(n - 1) -> Volatilities],
            count : {n}] : n \in 0..MaxAssets}

InitPortfolio ==
    /\ EmptyBook
    /\ NoEma
    /\ NoRsi
    /\ NoRisk
    /\ NoExt
    /\ pvar_call \in PortfolioCalls
    /\ pvar_result = NoVar

\* nautilus_calculate_portfolio_var called on the caller's three float arrays.
\* Indices past the end of positions and volatilities hold arbitrary values; a
\* load from them returns one of these or faults.
CalculatePortfolioVar ==
    /\ pvar_result.status = "idle"
    /\ LET count == pvar_call.count
           outside == {2 * i : i \in 0..(count - 1)} \ (0..(count - 1))
       IN  \E sp \in [outside -> Weights], sv \in [outside -> Volatilities] :
             LET pmem == [k \in (0..(count - 1)) \cup outside |->
                             IF k < count THEN pvar_call.positions[k] ELSE sp[k]]
                 vmem == [k \in (0..(count - 1)) \cup outside |->
                             IF k < count THEN pvar_call.volatilities[k] ELSE sv[k]]
                 run == nautilus_calculate_portfolio_var(
                            pmem, pvar_call.correlations, vmem, count)
             IN  \/ pvar_result' = [status |-> "returned", x0 |-> run.x0,
                                    loads |-> run.loads]
                 \/ /\ outside # {}
                    /\ pvar_result' = [status |-> "fault",
                                       x0 |-> [scaled_sqrt |-> Zero],
                                       loads |-> run.loads]
    /\ UNCHANGED <<book_vars, thread_vars, ema_vars, rsi_vars, risk_vars, ext_vars,
                   pvar_call>>

NextPortfolio == CalculatePortfolioVar

SpecPortfolio == InitPortfolio /\ [][NextPortfolio]_vars

\* ----------------------------------------------- claims on the portfolio VaR
\* The double sum over i, j in 0..count-1 of
\* weight_i * weight_j * volatility_i * volatility_j * correlation_ij on the
\* caller's arrays.
RECURSIVE VarianceSum(_, _)
VarianceSum(call, k) ==
    IF k = 0 THEN Zero
    ELSE LET i == (k - 1) \div call.count
             j == (k - 1) % call.count
         IN  RatAdd(VarianceSum(call, k - 1),
                    RatMul(RatMul(call.positions[i], call.positions[j]),
                           RatMul(RatMul(call.volatilities[i], call.volatilities[j]),
                                  call.correlations[i * call.count + j])))

Variance(call) == VarianceSum(call, call.count * call.count)

\* C20: the call returns the scaled square root of max(variance, 0), variance
\* being the double sum over the i-th elements of the caller's arrays; a
\* negative sum gives 0; no element outside the arrays is used.
C20_PortfolioVarIsClampedRoot ==
    pvar_result.status # "idle" =>
        /\ pvar_result.status = "returned"
        /\ pvar_result.loads \subseteq 0..(pvar_call.count - 1)
        /\ pvar_result.x0 =
               [scaled_sqrt |-> IF Variance(pvar_call)[1] < 0 THEN Zero
                                ELSE Variance(pvar_call)]

\* ------------------------------------------------------------ market_data.s
\* _nautilus_process_tick_batch and AssemblyMarketDataProcessor.process_ticks.
\* Memory is a sequence of 8-byte cells.  A cell holds a double ([f64 |-> q]),
\* a signed 64-bit integer ([i64 |-> n]), or two 4-byte floats side by side
\* ([f32lo |-> a, f32hi |-> b]); a value computed from the bit pattern of a
\* cell of another type is kept as a term over that cell.

\* Batches hold up to MaxTicks ticks.
MaxTicks == 3

InstrumentIds == {7}
TickPrices == {One, Rat(3, 2)}
TickQuantities == {Rat(1, 2), Rat(2, 1)}
TickTimestamps == {Rat(5, 1), Rat(6, 1)}
RawTicks == [price : TickPrices, quantity : TickQuantities,
             timestamp : TickTimestamps]
TickBatches == UNION {[1..n -> RawTicks] : n \in 0..MaxTicks}

\* fmov #100000000.0
Scale == <<100000000, 1>>
Uninitialised == [uninit |-> TRUE]
\* What uninitialised heap cells may hold when they are read as doubles.
StrayCells == {[f64 |-> Zero], [f64 |-> One]}

\* fmul by 1e8, then fcvtzs, of one 8-byte cell read as a double.
scale_to_int(cell) ==
    IF "f64" \in DOMAIN cell THEN [i64 |-> Trunc(RatMul(cell.f64, Scale))]
    ELSE [fcvtzs_of |-> cell]

\* x0 counts the 8-byte cells the input pointer has advanced by, x5 the
\* iterations left, out the cells stored through x1 so far.
RECURSIVE tick_vector_loop(_, _, _, _, _)
tick_vector_loop(mem, x0, x5, x3, out) ==
    IF x5 = 0 THEN [x0 |-> x0, out |-> out]
    ELSE LET v0 == <<mem[x0 + 1], mem[x0 + 2]>>       \* ld1 {v0.2d, v1.2d}
             v1 == <<mem[x0 + 3], mem[x0 + 4]>>
             v2 == <<mem[x0 + 5], mem[x0 + 6]>>       \* ld1 {v2.2d, v3.2d}
             v3 == <<mem[x0 + 7], mem[x0 + 8]>>
             v4 == <<v0[1], v2[1]>>                   \* zip1 v4.2d, v0.2d, v2.2d
             v5 == <<v1[1], v3[1]>>                   \* zip1 v5.2d, v1.2d, v3.2d
             v7 == <<scale_to_int(v4[1]), scale_to_int(v4[2])>>
             v8 == <<scale_to_int(v5[1]), scale_to_int(v5[2])>>
             v16 == <<[i64 |-> x3], [i64 |-> x3]>>    \* dup v16.2d, x3
         IN  tick_vector_loop(mem, x0 + 8, x5 - 1, x3, out \o v16 \o v7 \o v8)

remaining_ticks(mem, x0, x2, x3, out) ==
    IF x2 % 2 = 0 THEN out
    ELSE out \o <<[i64 |-> x3], scale_to_int(mem[x0 + 1]),
                  scale_to_int(mem[x0 + 2])>>

\* The cells stored at output_events, in address order.
nautilus_process_tick_batch(mem, x2, x3) ==
    LET v == tick_vector_loop(mem, 0, x2 \div 2, x3, << >>)
    IN  remaining_ticks(mem, v.x0, x2, x3, v.out)

\* The 0-based cells of the input buffer whose value reaches the output.
UsedCells(count) ==
    {8 * k + l : k \in 0..((count \div 2) - 1), l \in {0, 2, 4, 6}}
        \cup (IF count % 2 = 1 THEN {4 * (count - 1), 4 * (count - 1) + 1}
              ELSE {})

\* A caller's buffer of 32-byte ticks: price, quantity, timestamp and padding
\* as doubles.
ticks_as_doubles(ticks) ==
    [c \in 1..(4 * Len(ticks)) |->
        LET tick == ticks[((c - 1) \div 4) + 1]
        IN  CASE (c - 1) % 4 = 0 -> [f64 |-> tick.price]
              [] (c - 1) % 4 = 1 -> [f64 |-> tick.quantity]
              [] (c - 1) % 4 = 2 -> [f64 |-> tick.timestamp]
              [] OTHER -> [f64 |-> Zero]]

\* _copy_ticks_to_buffer writes four 4-byte floats per tick, i.e. two cells;
\* the second half of the malloc(count * 32) block is left as malloc gave it.
copy_ticks_to_buffer(ticks, heap) ==
    [c \in 1..(4 * Len(ticks)) |->
        IF c > 2 * Len(ticks) THEN heap[c]
        ELSE LET tick == ticks[((c - 1) \div 2) + 1]
             IN  IF (c - 1) % 2 = 0
                 THEN [f32lo |-> tick.price, f32hi |-> tick.quantity]
                 ELSE [f32lo |-> tick.timestamp, f32hi |-> Zero]]

\* float_buffer[k] of a buffer of 8-byte cells: one half of cell k / 2.
float_at(buffer, k) == [half |-> k % 2, cell |-> buffer[(k \div 2) + 1]]

convert_from_buffer(buffer, count, instrument_id) ==
    [i \in 1..count |->
        [instrument_id |-> instrument_id,
         price |-> float_at(buffer, (i - 1) * 3),
         quantity |-> float_at(buffer, (i - 1) * 3 + 1),
         scaled_price |-> [int_of |-> float_at(buffer, (i - 1) * 3 + 2)]]]

\* The two working buffers of process_ticks, in malloc (and free) order.
TickBufferOrder == <<"input_buffer", "output_buffer">>
TickBufferNames == {TickBufferOrder[k] : k \in 1..Len(TickBufferOrder)}

TickCalls == [entry : {"process_ticks", "nautilus_process_tick_batch"},
              ticks : TickBatches, instrument_id : InstrumentIds]

InitTicks ==
    /\ EmptyBook
    /\ NoEma
    /\ NoRsi
    /\ NoRisk
    /\ NoPortfolio
    /\ risk_heap = NoHeap
    /\ NoLate
    /\ tick_call \in TickCalls
    /\ tick_buffers = << >>
    /\ tick_output = << >>
    /\ tick_result = NoResult
    /\ tick_heap = NoHeap

\* AssemblyMarketDataProcessor.process_ticks(ticks)
ProcessTicks ==
    /\ tick_call.entry = "process_ticks"
    /\ tick_result.status = "idle"
    /\ LET ticks == tick_call.ticks
           count == Len(ticks)
       IN  IF count = 0
           THEN /\ tick_result' = [status |-> "returned", result |-> << >>]
                /\ UNCHANGED <<tick_buffers, tick_output, tick_heap>>
           ELSE \E got \in SUBSET TickBufferNames :  \* mallocs that returned non-NULL
                  IF got # TickBufferNames
                  THEN /\ tick_result' = [status |-> "MemoryError", result |-> << >>]
                       /\ tick_heap' = [allocated |-> got,
                                        failed |-> TickBufferNames \ got,
                                        frees |-> free_allocated(TickBufferOrder, got),
                                        kernel |-> FALSE]
                       /\ UNCHANGED <<tick_buffers, tick_output>>
                  ELSE \E stray \in [{c \in UsedCells(count) : c >= 2 * count}
                                        -> StrayCells] :
                         LET heap == [c \in 1..(4 * count) |->
                                         IF (c - 1) \in DOMAIN stray
                                         THEN stray[c - 1] ELSE Uninitialised]
                             input == copy_ticks_to_buffer(ticks, heap)
                             output == nautilus_process_tick_batch(
                                           input, count, tick_call.instrument_id)
                         IN  /\ tick_buffers' = input
                             /\ tick_output' = output
                             /\ tick_result' =
                                    [status |-> "returned",
                                     result |-> convert_from_buffer(
                                                    output, count,
                                                    tick_call.instrument_id)]
                             /\ tick_heap' = [allocated |-> got,
                                              failed |-> TickBufferNames \ got,
                                              frees |-> TickBufferOrder,
                                              kernel |-> TRUE]
    /\ UNCHANGED <<book_vars, thread_vars, ema_vars, rsi_vars, risk_vars, pvar_vars,
                   risk_heap, late_vars, tick_call>>

\* nautilus_process_tick_batch(input_ticks, output_events, count, instrument_id)
\* called on a buffer of 32-byte ticks (assembly_engine.h).
KernelProcessTickBatch ==
    /\ tick_call.entry = "nautilus_process_tick_batch"
    /\ tick_result.status = "idle"
    /\ LET input == ticks_as_doubles(tick_call.ticks)
       IN  /\ tick_buffers' = input
           /\ tick_output' = nautilus_process_tick_batch(
                                 input, Len(tick_call.ticks),
                                 tick_call.instrument_id)
    /\ tick_result' = [status |-> "returned", result |-> << >>]
    /\ UNCHANGED <<book_vars, thread_vars, ema_vars, rsi_vars, risk_vars, pvar_vars,
                   risk_heap, late_vars, tick_call, tick_heap>>

NextTicks == ProcessTicks \/ KernelProcessTickBatch

SpecTicks == InitTicks /\ [][NextTicks]_vars

\* The event record the batch owes tick i (1-based): three cells.
ScaledEvent(tick, instrument_id) ==
    <<[i64 |-> instrument_id],
      [i64 |-> Trunc(RatMul(tick.price, Scale))],
      [i64 |-> Trunc(RatMul(tick.quantity, Scale))]>>

KernelReturned ==
    /\ tick_call.entry = "nautilus_process_tick_batch"
    /\ tick_result.status = "returned"

\* C21: a batch of n ticks yields n events in input order; event i occupies
\* its own record of three cells and holds the instrument id, the scaled price
\* of tick i and the scaled quantity of tick i (from its quantity field).
C21_EventPerTickInOrder ==
    KernelReturned =>
        /\ Len(tick_output) = 3 * Len(tick_call.ticks)
        /\ \A i \in 1..Len(tick_call.ticks) :
             SubSeq(tick_output, 3 * i - 2, 3 * i) =
                 ScaledEvent(tick_call.ticks[i], tick_call.instrument_id)

\* The output of one single-tick call per tick, concatenated.
RECURSIVE OneByOne(_, _, _)
OneByOne(ticks, instrument_id, i) ==
    IF i > Len(ticks) THEN << >>
    ELSE nautilus_process_tick_batch(ticks_as_doubles(<<ticks[i]>>), 1,
                                     instrument_id)
             \o OneByOne(ticks, instrument_id, i + 1)

\* C22: one batch call stores the same output buffer as one single-tick call
\* per tick with the results concatenated, for even and odd batch lengths.
C22_BatchEqualsOneByOne ==
    KernelReturned =>
        tick_output = OneByOne(tick_call.ticks, tick_call.instrument_id, 1)

\* ------------------------------------------- the wrappers' working buffers
\* process_ticks and validate_order_batch, each called from Python.
InitWrappers ==
    \/ InitTicks /\ tick_call.entry = "process_ticks"
    \/ InitRisk /\ risk_call.entry = "validate_order_batch"

NextWrappers == ProcessTicks \/ ValidateOrderBatch

SpecWrappers == InitWrappers /\ [][NextWrappers]_vars

\* How often free(b) was called.
FreeCount(heap, b) == Cardinality({k \in 1..Len(heap.frees) : heap.frees[k] = b})

HeapDiscipline(result, heap, names) ==
    /\ heap.failed # {} =>
          /\ result.status = "MemoryError"
          /\ ~heap.kernel
          /\ result.result = << >>
          /\ \A b \in names :
                FreeCount(heap, b) = IF b \in heap.allocated THEN 1 ELSE 0
    /\ result.status = "MemoryError" => heap.failed # {}
    /\ result.status = "returned" /\ heap.kernel =>
          /\ heap.allocated = names
          /\ \A b \in names : FreeCount(heap, b) = 1

\* C24: when a malloc of process_ticks or validate_order_batch fails, the call
\* raises before the kernel runs, returns no list, and frees every buffer it
\* did get; a call that returns its list has freed every buffer exactly once.
C24_BuffersFreedOnEveryPath ==
    /\ HeapDiscipline(tick_result, tick_heap, TickBufferNames)
    /\ HeapDiscipline(risk_result, risk_heap, RiskBufferNames)

\* validate_order_batch got two of its three buffers and raised.
C24_Witness ==
    /\ risk_result.status = "MemoryError"
    /\ Cardinality(risk_heap.allocated) = 2
    /\ Len(risk_heap.frees) = 2

\* ------------------------------------------- nautilus_hot_paths.s, prices
\* _fast_price_operations / _fast_quantity_operations and the Python methods
\* FastPriceEngine.price_to_float / FastQuantityEngine.quantity_to_float.

\* Values are k / 4 for k in 0..MaxQuarters: each has at most 8 fractional
\* digits and, being dyadic, is a double whose product with 1e8 is exact.
MaxQuarters == 60
Decimals == {Rat(k, 4) : k \in 0..MaxQuarters}

\* fmov d2, #50500.0
Threshold == 50500

\* <uint64_t>(value * 1e8) of a non-negative double: the product, truncated.
to_scaled_int(x) ==
    x[1] * (Scale[1] \div x[2]) + ((x[1] * (Scale[1] % x[2])) \div x[2])

\* float(result) / 1e8
to_python_float(result) == Rat(result, Scale[1])

\* d0 > d2 for a non-negative d0 and the whole number d2.
fcmp_gt(d0, d2) == Trunc(d0) > d2 \/ (Trunc(d0) = d2 /\ d0[1] % d0[2] # 0)

\* x0 = price_int, x1 = operation_type; the value left in x0.
fast_price_operations(x0, x1) ==
    LET d0 == Rat(scvtf(x0)[1], Scale[1])           \* scvtf, fdiv by 1e8
    IN  CASE x1 = 1 -> IF fcmp_gt(d0, Threshold) THEN 1 ELSE 0
          [] x1 = 2 -> Trunc(Rat(2 * d0[1], d0[2]))
          [] OTHER -> Trunc(d0)                     \* price_to_float: fcvtzs

\* x0 = quantity_int, x1 = operation_type.
fast_quantity_operations(x0, x1) ==
    LET d0 == Rat(scvtf(x0)[1], Scale[1])
    IN  CASE x1 = 1 -> Trunc(Rat(2 * d0[1], d0[2]))
          [] OTHER -> Trunc(d0)                     \* qty_to_float: fcvtzs

ConvertCalls == [entry : {"price_to_float", "quantity_to_float"}, x : Decimals]

InitConvert ==
    /\ EmptyBook
    /\ NoEma
    /\ NoRsi
    /\ NoRisk
    /\ NoPortfolio
    /\ risk_heap = NoHeap
    /\ NoTicks
    /\ NoUltraRisk
    /\ NoUltraBook
    /\ NoEmaKernel
    /\ conv_call \in ConvertCalls
    /\ conv_result = Idle

\* FastPriceEngine.price_to_float(price)
PriceToFloat ==
    /\ conv_call.entry = "price_to_float"
    /\ conv_result.status = "idle"
    /\ LET price_int == to_scaled_int(conv_call.x)
           result == fast_price_operations(price_int, 0)
       IN  conv_result' = [status |-> "returned", scaled |-> price_int,
                           value |-> to_python_float(result)]
    /\ UNCHANGED <<book_vars, thread_vars, ema_vars, rsi_vars, risk_vars, pvar_vars,
                   risk_heap, tick_vars, urisk_vars, ubook_vars, emak_vars,
                   conv_call>>

\* FastQuantityEngine.quantity_to_float(quantity)
QuantityToFloat ==
    /\ conv_call.entry = "quantity_to_float"
    /\ conv_result.status = "idle"
    /\ LET qty_int == to_scaled_int(conv_call.x)
           result == fast_quantity_operations(qty_int, 0)
       IN  conv_result' = [status |-> "returned", scaled |-> qty_int,
                           value |-> to_python_float(result)]
    /\ UNCHANGED <<book_vars, thread_vars, ema_vars, rsi_vars, risk_vars, pvar_vars,
                   risk_heap, tick_vars, urisk_vars, ubook_vars, emak_vars,
                   conv_call>>

NextConvert == PriceToFloat \/ QuantityToFloat

SpecConvert == InitConvert /\ [][NextConvert]_vars

\* C23: a non-negative value with at most 8 fractional digits, scaled by 1e8
\* and taken back through price_to_float / quantity_to_float, comes back as
\* itself.
C23_ScaleRoundTrip ==
    conv_result.status = "returned" => conv_result.value = conv_call.x

\* -------------------------------------- signals.s, the EMA kernel's accesses
\* _nautilus_calculate_ema_vectorized called on C arrays of count floats: its
\* loop iterations and the float indices it loads from prices and stores to
\* output.  The control flow depends on count alone.

\* Blocks of four floats behind the arrays that are mapped memory: accesses to
\* them succeed, the first access past them faults.
MaxStrayBlocks == 2

\* sub x2, x2, #1 on the unsigned 64-bit count: 0 wraps to 2^64 - 1, and
\* udiv x5, x2, x4 then asks for 2^62 - 1 vector iterations.
count_wraps(x2) == x2 = 0

\* at = float index x0 and x1 point to; t = the accesses so far.
RECURSIVE ema_vector_steps(_, _, _)
ema_vector_steps(x5, at, t) ==
    IF x5 = 0 THEN [at |-> at, t |-> t]
    ELSE ema_vector_steps(x5 - 1, at + 4,
             [iterations |-> t.iterations + 1,
              loads |-> t.loads \o <<at, at + 1, at + 2, at + 3>>,     \* ld1 {v0.4s}
              stores |-> t.stores \o <<at, at + 1, at + 2, at + 3>>])  \* st1 {v4.4s}

RECURSIVE ema_scalar_steps(_, _, _)
ema_scalar_steps(x4, at, t) ==
    IF x4 = 0 THEN t
    ELSE ema_scalar_steps(x4 - 1, at + 1,
             [iterations |-> t.iterations + 1,
              loads |-> Append(t.loads, at),
              stores |-> Append(t.stores, at)])

\* ldr s18, [x0] / str s18, [x1]
ema_first_access == [iterations |-> 0, loads |-> <<0>>, stores |-> <<0>>]

\* The run for a count that does not wrap.
ema_kernel_steps(count) ==
    LET x2 == count - 1
        v == ema_vector_steps(x2 \div 4, 1, ema_first_access)
    IN  ema_scalar_steps(x2 % 4, v.at, v.t)

EmaKernelCalls == [prices : PriceArrays \cup {<< >>}, alpha : Alphas]

InitEmaKernel ==
    /\ EmptyBook
    /\ NoEma
    /\ NoRsi
    /\ NoRisk
    /\ NoPortfolio
    /\ risk_heap = NoHeap
    /\ NoTicks
    /\ NoConvert
    /\ NoUltraRisk
    /\ NoUltraBook
    /\ emak_call \in EmaKernelCalls
    /\ emak_result = Idle

\* nautilus_calculate_ema_vectorized(prices, output, count, alpha) with
\* count = the length of both arrays (assembly_engine.h).
KernelCalculateEma ==
    /\ emak_call # NoEntry
    /\ emak_result.status = "idle"
    /\ LET count == Len(emak_call.prices)
       IN  IF count_wraps(count)
           THEN \* every access is outside the (empty) arrays
                \/ emak_result' = [status |-> "fault", output |-> << >>,
                                   iterations |-> 0, loads |-> << >>,
                                   stores |-> << >>]
                \/ \E mapped \in 0..MaxStrayBlocks :
                     LET v == ema_vector_steps(mapped, 1, ema_first_access)
                     IN  emak_result' = [status |-> "fault", output |-> << >>,
                                         iterations |-> v.t.iterations,
                                         loads |-> v.t.loads,
                                         stores |-> v.t.stores]
           ELSE LET t == ema_kernel_steps(count)
                IN  emak_result' =
                        [status |-> "returned",
                         output |-> nautilus_calculate_ema_vectorized(
                                        emak_call.prices, emak_call.alpha),
                         iterations |-> t.iterations,
                         loads |-> t.loads,
                         stores |-> t.stores]
    /\ UNCHANGED <<book_vars, thread_vars, ema_vars, rsi_vars, risk_vars, pvar_vars,
                   risk_heap, tick_vars, conv_vars, urisk_vars, ubook_vars,
                   emak_call>>

NextEmaKernel == KernelCalculateEma

SpecEmaKernel == InitEmaKernel /\ [][NextEmaKernel]_vars

\* The float indices 0..n-1 in order.
FirstIndices(n) == [k \in 1..n |-> k - 1]

\* C25: for every count >= 0 the kernel returns after at most count loop
\* iterations, having loaded exactly prices 0..count-1 and stored exactly
\* output 0..count-1 (nothing at all for count = 0).
C25_EmaTerminatesInBounds ==
    emak_result.status # "idle" =>
        LET count == Len(emak_call.prices)
        IN  /\ emak_result.status = "returned"
            /\ emak_result.iterations <= count
            /\ emak_result.loads = FirstIndices(count)
            /\ emak_result.stores = FirstIndices(count)

\* --------------------------- ultra_fast_risk.s and order_book.s:234-349
\* _ultra_fast_risk_validate, _ultra_fast_risk_single and
\* _ultra_fast_risk_batch_simd.  A packed order is kept as its two 32-bit
\* words (hi = price, lo = quantity), packed limits as their four 16-bit
\* fields; all are unsigned.

\* Batches hold up to MaxPacked orders: one 8-wide block and a remainder.
MaxPacked == 9
\* process_loop handles blocks of BlockWidth orders (cmp x2, #8).
BlockWidth == 8

PackedOrders == [hi : 0..3, lo : 0..3]
\* In batches: a valid order, one above max_price, one above max_qty.
BatchOrders == {[hi |-> 1, lo |-> 1], [hi |-> 3, lo |-> 1], [hi |-> 1, lo |-> 3]}
PackedLimits == {[min_qty |-> 1, max_qty |-> 2, min_price |-> 1, max_price |-> 2]}
PackedBatches == UNION {[1..n -> BatchOrders] : n \in 0..MaxPacked}

\* The C and Z flags after cmp a, b on unsigned operands.
cmp(a, b) == [c |-> a >= b, z |-> a = b]
hs(flags) == flags.c
ls(flags) == ~flags.c \/ flags.z
hi(flags) == flags.c /\ ~flags.z
\* ccmp a, b, #0, cond: compare when cond held, else set NZCV to 0.
ccmp(a, b, held) == IF held THEN cmp(a, b) ELSE [c |-> FALSE, z |-> FALSE]
cset(held) == IF held THEN 1 ELSE 0

\* x2 = price, x3 = quantity, x4..x7 = min_qty, max_qty, min_price, max_price.
compare_chain(x2, x3, x4, x5, x6, x7) ==
    LET f1 == cmp(x2, x6)
        f2 == ccmp(x2, x7, hs(f1))
        f3 == ccmp(x3, x4, ls(f2))
        f4 == ccmp(x3, x5, hs(f3))
    IN  cset(hi(f4))

\* x0 = packed order, x1 = packed limits; the value returned in x0.
ultra_fast_risk_validate(x0, x1) ==
    compare_chain(x0.hi, x0.lo, x1.min_qty, x1.max_qty, x1.min_price,
                  x1.max_price)

ultra_fast_risk_single(x0, x1) ==
    compare_chain(x0.hi, x0.lo, x1.min_qty, x1.max_qty, x1.min_price,
                  x1.max_price)

\* cmhs / cmls: an all-ones lane when the compare holds, else 0; and of the
\* four masks; ushr #31 leaves 1 for an all-ones lane.
simd_lane(order, x3) ==
    LET v8 == order.lo >= x3.min_qty
        v9 == order.lo <= x3.max_qty
        v10 == order.hi >= x3.min_price
        v11 == order.hi <= x3.max_price
    IN  IF (v8 /\ v9) /\ (v10 /\ v11) THEN 1 ELSE 0

\* at = number of orders consumed; out = the 32-bit results stored so far.
RECURSIVE process_loop(_, _, _, _, _)
process_loop(orders, at, x2, x3, out) ==
    IF x2 < BlockWidth THEN [at |-> at, x2 |-> x2, out |-> out]
    ELSE process_loop(orders, at + BlockWidth, x2 - BlockWidth, x3,
             out \o [l \in 1..BlockWidth |-> simd_lane(orders[at + l], x3)])

RECURSIVE remainder_loop(_, _, _, _, _)
remainder_loop(orders, at, x2, x3, out) ==
    IF x2 = 0 THEN out
    ELSE remainder_loop(orders, at + 1, x2 - 1, x3,
             Append(out, compare_chain(orders[at + 1].hi, orders[at + 1].lo,
                                       x3.min_qty, x3.max_qty, x3.min_price,
                                       x3.max_price)))

\* x0 = orders, x2 = count, x3 = limits; the results stored through x1.
ultra_fast_risk_batch_simd(orders, x2, x3) ==
    LET v == process_loop(orders, 0, x2, x3, << >>)
    IN  remainder_loop(orders, v.at, v.x2, x3, v.out)

UltraRiskCalls ==
    [entry : {"ultra_fast_risk_validate", "ultra_fast_risk_single"},
     order : PackedOrders, limits : PackedLimits]
        \cup [entry : {"ultra_fast_risk_batch_simd"}, orders : PackedBatches,
              limits : PackedLimits]

InitUltraRisk ==
    /\ EmptyBook
    /\ NoEma
    /\ NoRsi
    /\ NoRisk
    /\ NoPortfolio
    /\ risk_heap = NoHeap
    /\ NoTicks
    /\ NoConvert
    /\ NoUltraBook
    /\ NoEmaKernel
    /\ urisk_call \in UltraRiskCalls
    /\ urisk_result = Idle

UltraRiskValidate ==
    /\ urisk_call.entry = "ultra_fast_risk_validate"
    /\ urisk_result.status = "idle"
    /\ urisk_result' = [status |-> "returned",
                        x0 |-> ultra_fast_risk_validate(urisk_call.order,
                                                        urisk_call.limits)]
    /\ UNCHANGED <<book_vars, thread_vars, ema_vars, rsi_vars, risk_vars, pvar_vars,
                   risk_heap, tick_vars, conv_vars, ubook_vars, emak_vars,
                   urisk_call>>

UltraRiskSingle ==
    /\ urisk_call.entry = "ultra_fast_risk_single"
    /\ urisk_result.status = "idle"
    /\ urisk_result' = [status |-> "returned",
                        x0 |-> ultra_fast_risk_single(urisk_call.order,
                                                      urisk_call.limits)]
    /\ UNCHANGED <<book_vars, thread_vars, ema_vars, rsi_vars, risk_vars, pvar_vars,
                   risk_heap, tick_vars, conv_vars, ubook_vars, emak_vars,
                   urisk_call>>

UltraRiskBatchSimd ==
    /\ urisk_call.entry = "ultra_fast_risk_batch_simd"
    /\ urisk_result.status = "idle"
    /\ urisk_result' = [status |-> "returned",
                        results |-> ultra_fast_risk_batch_simd(
                                        urisk_call.orders, Len(urisk_call.orders),
                                        urisk_call.limits)]
    /\ UNCHANGED <<book_vars, thread_vars, ema_vars, rsi_vars, risk_vars, pvar_vars,
                   risk_heap, tick_vars, conv_vars, ubook_vars, emak_vars,
                   urisk_call>>

NextUltraRisk == UltraRiskValidate \/ UltraRiskSingle \/ UltraRiskBatchSimd

SpecUltraRisk == InitUltraRisk /\ [][NextUltraRisk]_vars

WithinPackedLimits(order, limits) ==
    /\ limits.min_price <= order.hi /\ order.hi <= limits.max_price
    /\ limits.min_qty <= order.lo /\ order.lo <= limits.max_qty

\* C27: _ultra_fast_risk_validate and _ultra_fast_risk_single return 0 exactly
\* when min_price <= price <= max_price and min_qty <= quantity <= max_qty,
\* and 1 when any of the four bounds is violated.
C27_ZeroIffWithinAllBounds ==
    (urisk_result.status = "returned"
        /\ urisk_call.entry \in {"ultra_fast_risk_validate",
                                 "ultra_fast_risk_single"})
    => urisk_result.x0 =
           IF WithinPackedLimits(urisk_call.order, urisk_call.limits) THEN 0
           ELSE 1

\* C29: the result _ultra_fast_risk_batch_simd stores for order i is the value
\* _ultra_fast_risk_single returns for that order and the same limits, in an
\* 8-wide block as in the remainder.
C29_BatchMatchesSingle ==
    (urisk_result.status = "returned"
        /\ urisk_call.entry = "ultra_fast_risk_batch_simd")
    => /\ Len(urisk_result.results) = Len(urisk_call.orders)
       /\ \A i \in 1..Len(urisk_call.orders) :
             urisk_result.results[i] =
                 ultra_fast_risk_single(urisk_call.orders[i], urisk_call.limits)

\* --------------------------------------------- risk_engine.s, 32-bit sums
\* C28: new_position = position + quantity is computed without wraparound: no
\* order is marked valid whose true sum position + quantity lies outside
\* [-max_position_size, max_position_size] (through an overflow of the 32-bit
\* addition or of the 32-bit negation of max_position_size).
C28_NoValidThroughWraparound ==
    \A i \in 1..Len(risk_run.checked) :
        risk_run.checked[i].valid =>
            WithinPositionLimit(risk_run.checked[i].w13,
                                risk_buffers.orders[i].quantity,
                                risk_buffers.limits.max_position_size)

\* ------------------------------------------------- ultra_fast_order_book.s
\* _ultra_fast_book_init, _ultra_fast_book_update and _ultra_fast_batch_update.
\* The book block is kept as its 32-bit words (word w = bytes 4w..4w+3,
\* little-endian); quantities are below 2^32, so the upper word of a 64-bit
\* store of one is 0.

\* Batches hold up to MaxPairs (price index, quantity) pairs: one 4-wide block
\* and a remainder.  Price indices are drawn from 0..MaxIndex.
MaxPairs == 5
MaxIndex == 1

\* The metadata header: 32 bytes = 8 words.
HeaderWords == 8
\* batch_loop handles LaneCount pairs per iteration (lsr x4, x3, #2).
LaneCount == 4
\* Words of the block that the calls of the model can reach.
BookWords == 0..(HeaderWords + 16 * MaxIndex + 1)

IndexValues == 0..MaxIndex
QuantityValues == {1, 2}
UpdatePairs == [index : IndexValues, quantity : QuantityValues]
PairLists == UNION {[1..n -> UpdatePairs] : n \in 0..MaxPairs}

\* A 64-bit store at byte offset 4 * w: two words.
str_x(words, w, value) == [words EXCEPT ![w] = value, ![w + 1] = 0]
\* A 32-bit store at byte offset 4 * w.
str_w(words, w, value) == [words EXCEPT ![w] = value]

\* x1 = min_price, x2 = max_price, x3 = tick_size: clear, then the header.
ultra_fast_book_init(x1, x2, x3) ==
    LET cleared == [w \in BookWords |-> 0]
    IN  str_x(str_x(str_x(cleared, 0, x1), 2, x2), 4, x3)

\* str x2, [x0, x3] with x3 = (x1 << 3) + 32
ultra_fast_book_update(words, x1, x2) ==
    str_x(words, ((x1 * 8) + 32) \div 4, x2)

\* One lane of batch_loop: w5 = index * 8 (shl #3), x7 = x0 + (w5 << 3)
\* (uxtw #3), str w6, [x7, #32].
batch_lane(words, index, quantity) ==
    str_w(words, (((index * 8) * 8) + 32) \div 4, quantity)

RECURSIVE batch_loop(_, _, _, _)
batch_loop(words, pairs, at, x4) ==
    IF x4 = 0 THEN [words |-> words, at |-> at]
    ELSE LET l1 == batch_lane(words, pairs[at + 1].index, pairs[at + 1].quantity)
             l2 == batch_lane(l1, pairs[at + 2].index, pairs[at + 2].quantity)
             l3 == batch_lane(l2, pairs[at + 3].index, pairs[at + 3].quantity)
             l4 == batch_lane(l3, pairs[at + 4].index, pairs[at + 4].quantity)
         IN  batch_loop(l4, pairs, at + LaneCount, x4 - 1)

\* lsl x4, x4, #3 / str w5, [x0, x4]
RECURSIVE single_loop(_, _, _, _)
single_loop(words, pairs, at, x3) ==
    IF x3 = 0 THEN words
    ELSE single_loop(str_w(words, (pairs[at + 1].index * 8) \div 4,
                           pairs[at + 1].quantity),
                     pairs, at + 1, x3 - 1)

\* x1 / x2 = the index and quantity arrays (as pairs), x3 = count.
ultra_fast_batch_update(words, pairs, x3) ==
    LET v == batch_loop(words, pairs, 0, x3 \div LaneCount)
    IN  single_loop(v.words, pairs, v.at, x3 % LaneCount)

UltraBookCalls ==
    [entry : {"ultra_fast_batch_update"}, pairs : PairLists,
     min_price : {100}, max_price : {200}, tick_size : {5}]
        \cup [entry : {"ultra_fast_book_update"},
              pairs : {p \in PairLists : Len(p) = 1},
              min_price : {100}, max_price : {200}, tick_size : {5}]

InitUltraBook ==
    /\ EmptyBook
    /\ NoEma
    /\ NoRsi
    /\ NoRisk
    /\ NoPortfolio
    /\ risk_heap = NoHeap
    /\ NoTicks
    /\ NoConvert
    /\ NoUltraRisk
    /\ NoEmaKernel
    /\ ubook_call \in UltraBookCalls
    /\ ubook_memory = Idle

\* _ultra_fast_book_init(book, min_price, max_price, tick_size)
UltraFastBookInit ==
    /\ ubook_call # NoEntry
    /\ ubook_memory.status = "idle"
    /\ ubook_memory' =
           [status |-> "initialised",
            words |-> ultra_fast_book_init(ubook_call.min_price,
                                           ubook_call.max_price,
                                           ubook_call.tick_size)]
    /\ UNCHANGED <<book_vars, thread_vars, ema_vars, rsi_vars, risk_vars, pvar_vars,
                   risk_heap, tick_vars, conv_vars, urisk_vars, emak_vars,
                   ubook_call>>

\* _ultra_fast_book_update(book, price_int, quantity)
UltraFastBookUpdate ==
    /\ ubook_call.entry = "ultra_fast_book_update"
    /\ ubook_memory.status = "initialised"
    /\ ubook_memory' =
           [status |-> "updated",
            words |-> ultra_fast_book_update(ubook_memory.words,
                                             ubook_call.pairs[1].index,
                                             ubook_call.pairs[1].quantity)]
    /\ UNCHANGED <<book_vars, thread_vars, ema_vars, rsi_vars, risk_vars, pvar_vars,
                   risk_heap, tick_vars, conv_vars, urisk_vars, emak_vars,
                   ubook_call>>

\* _ultra_fast_batch_update(book, price_indices, quantities, count)
UltraFastBatchUpdate ==
    /\ ubook_call.entry = "ultra_fast_batch_update"
    /\ ubook_memory.status = "initialised"
    /\ ubook_memory' =
           [status |-> "updated",
            words |-> ultra_fast_batch_update(ubook_memory.words,
                                              ubook_call.pairs,
                                              Len(ubook_call.pairs))]
    /\ UNCHANGED <<book_vars, thread_vars, ema_vars, rsi_vars, risk_vars, pvar_vars,
                   risk_heap, tick_vars, conv_vars, urisk_vars, emak_vars,
                   ubook_call>>

NextUltraBook == UltraFastBookInit \/ UltraFastBookUpdate \/ UltraFastBatchUpdate

SpecUltraBook == InitUltraBook /\ [][NextUltraBook]_vars

\* The block after _ultra_fast_book_update on the pairs one by one, in order.
RECURSIVE Sequentially(_, _, _)
Sequentially(words, pairs, i) ==
    IF i > Len(pairs) THEN words
    ELSE Sequentially(ultra_fast_book_update(words, pairs[i].index,
                                             pairs[i].quantity),
                      pairs, i + 1)

InitialBlock ==
    ultra_fast_book_init(ubook_call.min_price, ubook_call.max_price,
                         ubook_call.tick_size)

\* C30: _ultra_fast_batch_update leaves the block as calling
\* _ultra_fast_book_update on the pairs one by one would (quantity i at byte
\* offset 32 + 8 * index i), in 4-wide blocks as in the remainder, and leaves
\* the 32-byte header as _ultra_fast_book_init wrote it.
C30_BatchEqualsSequential ==
    (ubook_call.entry = "ultra_fast_batch_update"
        /\ ubook_memory.status = "updated")
    => /\ ubook_memory.words = Sequentially(InitialBlock, ubook_call.pairs, 1)
       /\ \A w \in 0..(HeaderWords - 1) :
             ubook_memory.words[w] = InitialBlock[w]

\* ------------------------------------------------------- claims on the book
\* The levels a side holds: slots 0..count-1 of its array.
Stored(levels, count) == {levels[i] : i \in 0..(count - 1)}
Present(levels, count, price) == \E i \in 0..(count - 1) : levels[i].price = price
MaxOf(S) == CHOOSE x \in S : \A y \in S : y <= x
MinOf(S) == CHOOSE x \in S : \A y \in S : x <= y
PreLevels(side) == IF side = Bid THEN bids_array ELSE asks_array
PreCount(side) == IF side = Bid THEN bid_count ELSE ask_count

\* C1: after every call the bid levels are strictly descending by price and the
\* ask levels strictly ascending over slots 0..count-1 (so no price repeats).
C1_SortedUnique ==
    /\ \A i \in 0..(bid_count - 2) :
           bids_array[i].price > bids_array[i + 1].price
    /\ \A i \in 0..(ask_count - 2) :
           asks_array[i].price < asks_array[i + 1].price

\* C1 witness: a mutating call has left levels on both sides, two on one side.
C1_Witness ==
    /\ last.op = "update" /\ book_changed(last.flags)
    /\ bid_count >= 1 /\ ask_count >= 1 /\ bid_count + ask_count >= 3

\* C2: a call with quantity 0 acts as Remove, so every stored level has a
\* quantity > 0.
C2_StoredQuantityPositive ==
    /\ \A i \in 0..(bid_count - 1) : bids_array[i].quantity > 0
    /\ \A i \in 0..(ask_count - 1) : asks_array[i].quantity > 0

\* C3: a Remove call (any quantity) for a price the side does not hold changes
\* nothing in the book and returns book_changed = top_changed = false.
C3_RemoveAbsentIsNoOp ==
    [][(/\ last'.op = "update"
        /\ last'.action = Remove
        /\ ~Present(PreLevels(last'.side), PreCount(last'.side), last'.price))
       => (UNCHANGED book /\ last'.flags = 0)]_vars

\* C4: neither count ever exceeds its side's capacity.
C4_CountWithinCapacity ==
    /\ bid_count <= bid_capacity
    /\ ask_count <= ask_capacity

\* C5: the sequence counter equals its initial value (0) plus the number of
\* calls that returned book_changed: each call adds exactly 1 when it reports
\* book_changed and nothing otherwise.
C5_SequenceCountsChanges == sequence = changed_calls

\* C5 witness: a call that reported no change after two that did.
C5_Witness ==
    /\ last.op = "update" /\ ~book_changed(last.flags)
    /\ sequence >= 2

\* C6: top_changed is returned exactly when the call updated or deleted the
\* level at slot 0 of its side or inserted a new level at slot 0, and
\* top_changed implies book_changed.
C6_TopChangedIffSlotZero ==
    [][last'.op = "update" =>
        LET side == last'.side
            price == last'.price
            hit_top == PreCount(side) > 0 /\ PreLevels(side)[0].price = price
            new_top ==
                /\ ~Present(PreLevels(side), PreCount(side), price)
                /\ (IF side = Bid THEN bid_count' ELSE ask_count') = PreCount(side) + 1
                /\ (IF side = Bid THEN bids_array' ELSE asks_array')[0].price = price
        IN  /\ top_changed(last'.flags) <=> (hit_top \/ new_top)
            /\ top_changed(last'.flags) => book_changed(last'.flags)]_vars

\* C6 witness: a call on a bid side of two levels returned top_changed.
C6_Witness ==
    /\ last.op = "update" /\ last.side = Bid
    /\ top_changed(last.flags) /\ bid_count >= 2

\* C7: best_bid_ask returns the highest stored bid price and the lowest stored
\* ask price, and the value returned for an empty side (no_bids / no_asks) is
\* returned for no side that holds a level.
C7_BestOrAbsent ==
    last.op = "best" =>
        /\ IF bid_count = 0 THEN last.best_bid = no_bids
           ELSE /\ last.best_bid = MaxOf({l.price : l \in Stored(bids_array, bid_count)})
                /\ last.best_bid /= no_bids
        /\ IF ask_count = 0 THEN last.best_ask = no_asks
           ELSE /\ last.best_ask = MinOf({l.price : l \in Stored(asks_array, ask_count)})
                /\ last.best_ask /= no_asks

\* C26: a call leaves the other side's array and count as they were, and an
\* Upsert with quantity > 0 for a price its side holds changes that level's
\* quantity and nothing else: the count, every price and every other level
\* stay as they were.
C26_UpsertFrame ==
    [][last'.op = "update" =>
        LET side == last'.side
            price == last'.price
            pre == PreLevels(side)
            n == PreCount(side)
            post == IF side = Bid THEN bids_array' ELSE asks_array'
            hit(i) == i < n /\ pre[i].price = price
        IN  /\ IF side = Bid THEN UNCHANGED <<asks_array, ask_count>>
               ELSE UNCHANGED <<bids_array, bid_count>>
            /\ (last'.action = Upsert /\ last'.quantity > 0 /\ Present(pre, n, price))
               => /\ (IF side = Bid THEN bid_count' ELSE ask_count') = n
                  /\ \A i \in Slots :
                        IF hit(i)
                        THEN post[i] = [price |-> price, quantity |-> last'.quantity]
                        ELSE post[i] = pre[i]]_vars

\* C26 witness: the second storing call was an Upsert with quantity > 0 on the
\* one bid level the first had inserted.
C26_Witness ==
    /\ last.op = "update" /\ last.side = Bid /\ last.action = Upsert
    /\ last.quantity > 0 /\ book_changed(last.flags)
    /\ sequence = 2 /\ bid_count = 1 /\ ask_count = 0

====
